---- MODULE Spec2Model ----
(***************************************************************************)
(* Model of the metabolite analysis tool: the formula deriver              *)
(* (smiles_utils.py), the reference mapper, the mapping applier and the    *)
(* reports (metabolite_mapper.py), and the run over a workbook             *)
(* (process_metabolites.py, excel_processor.py).                           *)
(*                                                                         *)
(* Text is a sequence of one-character strings, so that str.strip() is     *)
(* computed and not assumed.  A cell of a DataFrame is either missing      *)
(* (NaN/None, pd.isna is true) or text.  A DataFrame is a record of its    *)
(* column names in column order and its rows in row order, each row a      *)
(* function from column name to cell.  DataFrames live in a heap of        *)
(* objects addressed by reference, so that "the caller's table is not      *)
(* modified" is a statement about the heap and not a convention.           *)
(***************************************************************************)
EXTENDS Integers, Sequences, FiniteSets, TLC

VARIABLES
    pc,                     \* position of the driver of the operation under study
    reference_df,           \* create_formula_metabolite_mapping: the reference table
    idx,                    \* create_formula_metabolite_mapping: rows iterated so far
    formula_to_metabolite,  \* create_formula_metabolite_mapping: the dict being built
    heap,                   \* DataFrame objects, by reference (1..Len(heap))
    target_df,              \* reference of the table the caller hands to a transform
    before,                 \* value of the caller's table when the call was made
    mapping,                \* the Formula Map handed to apply_metabolite_mapping
    parser,                 \* the external descriptor parser (RDKit), a black box
    smiles_column,          \* column name handed to add_formula_column
    result_df,              \* reference returned by the first call (0: nothing returned)
    result2_df,             \* reference returned by the second apply (0: nothing returned)
    exc,                    \* exception that left the last call ("none": returned)
    smiles,                 \* smiles_to_formula: the descriptor handed in
    formula,                \* smiles_to_formula: the value returned
    parser_calls,           \* smiles_to_formula: texts handed to Chem.MolFromSmiles
    ret,                    \* value returned by the lookup or report under study
    file,                   \* main: the input workbook on disk
    faulty,                 \* main: sheets on which add_formula_column raises unforeseen
    sheets_data,            \* main: processor.sheets_data, sheet name -> table, in sheet order
    smiles_columns,         \* process_formulas: sheet name -> descriptor column or None
    updated_sheets,         \* the dict the running stage is filling
    sheets_with_formulas,   \* main: what process_formulas returned
    final_sheets,           \* main: what process_metabolite_mapping returned
    sheet_idx,              \* sheets the running stage has handled
    status,                 \* main: the exit status returned
    outcome,                \* main: the return statement that ended the run
    log,                    \* main: the steps and stages of the run, in order
    output,                 \* the output workbook on disk
    backup,                 \* main: how the backup went ("none": not tried yet)
    map_failed,             \* sheets on which applying the map raised
    writer,                 \* save_to_excel: the sheets handed to the open ExcelWriter
    target_dfs,             \* merge_metabolite_data: references of the target tables
    sheet_names,            \* merge_metabolite_data: the names handed in with them
    result_dfs              \* merge_metabolite_data: references of the tables returned

\* what merge_metabolite_data works on
merge_vars == <<target_dfs, sheet_names, result_dfs>>

\* the state of a run of main
main_vars == <<file, faulty, sheets_data, smiles_columns, updated_sheets,
               sheets_with_formulas, final_sheets, sheet_idx, status, outcome,
               log, output, backup, map_failed, writer>>

vars == <<pc, reference_df, idx, formula_to_metabolite, heap, target_df, before,
          mapping, parser, smiles_column, result_df, result2_df, exc, smiles,
          formula, parser_calls, ret, main_vars, merge_vars>>

\* main has not returned
NotReturned == -1

\* no run of main is under study
MainIdle ==
    /\ file = [exists |-> FALSE, sheets |-> <<>>]
    /\ faulty = {}
    /\ sheets_data = <<>>
    /\ smiles_columns = <<>>
    /\ updated_sheets = <<>>
    /\ sheets_with_formulas = <<>>
    /\ final_sheets = <<>>
    /\ sheet_idx = 0
    /\ status = NotReturned
    /\ outcome = "none"
    /\ log = <<>>
    /\ output = <<>>
    /\ backup = "none"
    /\ map_failed = {}
    /\ writer = <<>>

\* no call of merge_metabolite_data is under study
MergeIdle ==
    /\ target_dfs = <<>>
    /\ sheet_names = <<>>
    /\ result_dfs = <<>>

-----------------------------------------------------------------------------
(* Bounds *)

MaxRefRows == 3
MaxRows == 2

-----------------------------------------------------------------------------
(* Text and cells *)

Whitespace == {" "}

RECURSIVE lstrip(_)
lstrip(s) ==
    IF s # <<>> /\ Head(s) \in Whitespace THEN lstrip(Tail(s)) ELSE s

RECURSIVE rstrip(_)
rstrip(s) ==
    IF s # <<>> /\ s[Len(s)] \in Whitespace
    THEN rstrip(SubSeq(s, 1, Len(s) - 1))
    ELSE s

\* str.strip()
strip(s) == rstrip(lstrip(s))

NaN == [na |-> TRUE, s |-> <<>>]
Text(s) == [na |-> FALSE, s |-> s]

\* pd.isna / Series.isna on a scalar cell
isna(cell) == cell.na

\* str(value) of a present text cell
str(cell) == cell.s

InvalidText == <<"I", "n", "v", "a", "l", "i", "d">>
ErrorText == <<"E", "r", "r", "o", "r">>

-----------------------------------------------------------------------------
(* DataFrames *)

FORMULA == "Formula"
METABOLITE_NAME == "Metabolite name"
REFERENCE_FORMULA_COL == "chemical_formula"
REFERENCE_METABOLITE_COL == "Metabolite name"

Range(f) == {f[i] : i \in DOMAIN f}

HasColumn(df, col) == col \in Range(df.columns)

\* df[col] = values : overwrites the column when present, appends it otherwise
SetColumn(df, col, values) ==
    [columns |-> IF HasColumn(df, col) THEN df.columns ELSE Append(df.columns, col),
     rows |-> [i \in DOMAIN df.rows |->
                 [c \in DOMAIN df.rows[i] \cup {col} |->
                    IF c = col THEN values[i] ELSE df.rows[i][c]]]]

\* result_df = df: no copy, the same object
DataFrameAlias(h, ref) == [heap |-> h, ref |-> ref]

\* df.copy(): a new object holding the same data
DataFrameCopy(h, ref) == [heap |-> Append(h, h[ref]), ref |-> Len(h) + 1]

-----------------------------------------------------------------------------
(* Reference Mapper: create_formula_metabolite_mapping *)

EmptyMap == [k \in {} |-> <<>>]

\* MapRow with the duplicate check dropped: a later row overwrites the entry
MapRowLastWins(m, row, formula_column, metabolite_column) ==
    LET f == row[formula_column]
        n == row[metabolite_column]
    IN  IF isna(f) \/ isna(n) THEN m
        ELSE LET formula_str == strip(str(f))
                 metabolite_str == strip(str(n))
             IN  IF formula_str = <<>> \/ metabolite_str = <<>> THEN m
                 ELSE [k \in DOMAIN m \cup {formula_str} |->
                         IF k = formula_str THEN metabolite_str ELSE m[k]]

\* MapRow with the "skip empty values" check dropped
MapRowKeepsEmpty(m, row, formula_column, metabolite_column) ==
    LET f == row[formula_column]
        n == row[metabolite_column]
    IN  IF isna(f) \/ isna(n) THEN m
        ELSE LET formula_str == strip(str(f))
                 metabolite_str == strip(str(n))
             IN  IF formula_str \notin DOMAIN m
                 THEN [k \in DOMAIN m \cup {formula_str} |->
                         IF k = formula_str THEN metabolite_str ELSE m[k]]
                 ELSE m

\* MapRow with the values tested after trimming but stored untrimmed
MapRowStoresRaw(m, row, formula_column, metabolite_column) ==
    LET f == row[formula_column]
        n == row[metabolite_column]
    IN  IF isna(f) \/ isna(n) THEN m
        ELSE IF strip(str(f)) = <<>> \/ strip(str(n)) = <<>> THEN m
             ELSE IF str(f) \notin DOMAIN m
                  THEN [k \in DOMAIN m \cup {str(f)} |->
                          IF k = str(f) THEN str(n) ELSE m[k]]
                  ELSE m

\* One iteration of the loop over reference_df.iterrows()
MapRow(m, row, formula_column, metabolite_column) ==
    LET f == row[formula_column]
        n == row[metabolite_column]
    IN  IF isna(f) \/ isna(n) THEN m
        ELSE LET formula_str == strip(str(f))
                 metabolite_str == strip(str(n))
             IN  IF formula_str = <<>> \/ metabolite_str = <<>> THEN m
                 ELSE IF formula_str \notin DOMAIN m
                      THEN [k \in DOMAIN m \cup {formula_str} |->
                              IF k = formula_str THEN metabolite_str ELSE m[k]]
                      ELSE m

RECURSIVE MapRows(_, _, _, _, _)
MapRows(m, rows, i, formula_column, metabolite_column) ==
    IF i > Len(rows) THEN m
    ELSE MapRows(MapRow(m, rows[i], formula_column, metabolite_column),
                 rows, i + 1, formula_column, metabolite_column)

\* The whole function: column validation, then the fold over the rows
create_formula_metabolite_mapping(df, formula_column, metabolite_column) ==
    IF ~HasColumn(df, formula_column) \/ ~HasColumn(df, metabolite_column)
    THEN [exc |-> "ValueError", ret |-> EmptyMap]
    ELSE [exc |-> "none",
          ret |-> MapRows(EmptyMap, df.rows, 1, formula_column, metabolite_column)]

-----------------------------------------------------------------------------
(* Formula Deriver: smiles_to_formula, add_formula_column *)

\* Chem.MolFromSmiles: the parser answers "mol" (a structure whose formula is
\* .formula), "mol_bad" (a structure for which CalcMolFormula raises), "none"
\* (no valid structure) or "raise".  A text it was not asked about in the
\* model is no valid structure.
MolFromSmiles(psr, smiles_str) ==
    IF smiles_str \in DOMAIN psr THEN psr[smiles_str]
    ELSE [kind |-> "none", formula |-> <<>>]

\* rdMolDescriptors.CalcMolFormula
CalcMolFormula(mol) ==
    IF mol.kind = "mol" THEN [raised |-> FALSE, formula |-> mol.formula]
    ELSE [raised |-> TRUE, formula |-> <<>>]

\* The try body with the "empty string" check dropped
smiles_to_formula_body_no_empty_check(smiles_cell, psr) ==
    IF isna(smiles_cell)
    THEN [raised |-> FALSE, ret |-> ErrorText, calls |-> <<>>]
    ELSE LET smiles_str == strip(str(smiles_cell))
             mol == MolFromSmiles(psr, smiles_str)
         IN  IF mol.kind = "raise"
             THEN [raised |-> TRUE, ret |-> <<>>, calls |-> <<smiles_str>>]
             ELSE IF mol.kind # "none"
                  THEN LET f == CalcMolFormula(mol)
                       IN  [raised |-> f.raised, ret |-> f.formula,
                            calls |-> <<smiles_str>>]
                  ELSE [raised |-> FALSE, ret |-> InvalidText,
                        calls |-> <<smiles_str>>]

\* The body of the try block: .raised tells that an exception left it
smiles_to_formula_body(smiles_cell, psr) ==
    IF isna(smiles_cell)
    THEN [raised |-> FALSE, ret |-> ErrorText, calls |-> <<>>]
    ELSE LET smiles_str == strip(str(smiles_cell))
         IN  IF smiles_str = <<>>
             THEN [raised |-> FALSE, ret |-> ErrorText, calls |-> <<>>]
             ELSE LET mol == MolFromSmiles(psr, smiles_str)
                  IN  IF mol.kind = "raise"
                      THEN [raised |-> TRUE, ret |-> <<>>, calls |-> <<smiles_str>>]
                      ELSE IF mol.kind # "none"
                           THEN LET f == CalcMolFormula(mol)
                                IN  [raised |-> f.raised, ret |-> f.formula,
                                     calls |-> <<smiles_str>>]
                           ELSE [raised |-> FALSE, ret |-> InvalidText,
                                 calls |-> <<smiles_str>>]

\* smiles_to_formula without the except clause: the exception leaves the call
smiles_to_formula_uncaught(smiles_cell, psr) ==
    LET b == smiles_to_formula_body(smiles_cell, psr)
    IN  [exc |-> IF b.raised THEN "Exception" ELSE "none",
         ret |-> b.ret, calls |-> b.calls]

\* try: body  except Exception: return "Error"
smiles_to_formula(smiles_cell, psr) ==
    LET b == smiles_to_formula_body(smiles_cell, psr)
    IN  [exc |-> "none",
         ret |-> IF b.raised THEN ErrorText ELSE b.ret,
         calls |-> b.calls]

\* Series.apply stopping at the first row that raises or yields a sentinel:
\* the rows after it are left without a value
FormulaValuesStopAtFailure(df, source_column, psr) ==
    LET r(i) == smiles_to_formula(df.rows[i][source_column], psr)
        failed(i) == r(i).exc # "none" \/ r(i).ret \in {InvalidText, ErrorText}
        firstBad == {i \in DOMAIN df.rows :
                        failed(i) /\ \A j \in 1..(i - 1) : ~failed(j)}
    IN  [exc |-> IF \E i \in DOMAIN df.rows : r(i).exc # "none"
                 THEN "Exception" ELSE "none",
         values |-> [i \in DOMAIN df.rows |->
                       IF \E b \in firstBad : b < i THEN NaN ELSE Text(r(i).ret)]]

\* result_df[smiles_column].apply(smiles_to_formula): one call per row, in row
\* order; an exception leaving a call leaves apply
FormulaValues(df, source_column, psr) ==
    LET r(i) == smiles_to_formula(df.rows[i][source_column], psr)
    IN  [exc |-> IF \E i \in DOMAIN df.rows : r(i).exc # "none"
                 THEN "Exception" ELSE "none",
         values |-> [i \in DOMAIN df.rows |-> Text(r(i).ret)]]

\* add_formula_column(df, smiles_column, formula_column) on the heap h
add_formula_column(h, df, source_column, formula_column, psr) ==
    IF ~HasColumn(h[df], source_column)
    THEN [heap |-> h, ret |-> 0, exc |-> "ValueError"]
    ELSE LET c == DataFrameCopy(h, df)
             v == FormulaValues(c.heap[c.ref], source_column, psr)
         IN  IF v.exc # "none"
             THEN [heap |-> c.heap, ret |-> 0, exc |-> v.exc]
             ELSE [heap |-> [c.heap EXCEPT
                               ![c.ref] = SetColumn(@, formula_column, v.values)],
                   ret |-> c.ref, exc |-> "none"]

-----------------------------------------------------------------------------
(* Mapping Applier: apply_metabolite_mapping *)

\* Series.map(dict) on one cell, with the cell trimmed before the lookup
MapCellTrimmed(cell, m) ==
    IF ~isna(cell) /\ strip(str(cell)) \in DOMAIN m
    THEN Text(m[strip(str(cell))]) ELSE NaN

\* Series.map(dict) on one cell: the value of the key equal to the cell, NaN
\* when no key equals it (a missing cell equals no key)
MapCell(cell, m) ==
    IF ~isna(cell) /\ str(cell) \in DOMAIN m THEN Text(m[str(cell)]) ELSE NaN

\* matches / total with Python integers: total = 0 raises ZeroDivisionError
PythonDivide(matches, total) ==
    IF total = 0 THEN [exc |-> "ZeroDivisionError", nan |-> FALSE, tenths |-> 0]
    ELSE [exc |-> "none", nan |-> FALSE, tenths |-> (matches * 1000) \div total]

\* matches / total * 100 where matches is the numpy integer of .sum(): total = 0
\* gives nan (with a RuntimeWarning) and raises nothing; the rate is kept in
\* tenths of a percent
NumpyDivide(matches, total) ==
    IF total = 0 THEN [exc |-> "none", nan |-> TRUE, tenths |-> 0]
    ELSE [exc |-> "none", nan |-> FALSE, tenths |-> (matches * 1000) \div total]

\* apply_metabolite_mapping assigning the mapped values to the formula column
apply_metabolite_mapping_wrong_column(h, df, m, formula_column, new_metabolite_column) ==
    IF ~HasColumn(h[df], formula_column)
    THEN [heap |-> h, ret |-> 0, exc |-> "ValueError"]
    ELSE LET c == DataFrameCopy(h, df)
             values == [i \in DOMAIN c.heap[c.ref].rows |->
                          MapCell(c.heap[c.ref].rows[i][formula_column], m)]
         IN  [heap |-> [c.heap EXCEPT
                          ![c.ref] = SetColumn(SetColumn(@, new_metabolite_column, values),
                                               formula_column, values)],
              ret |-> c.ref, exc |-> "none"]

\* apply_metabolite_mapping handing the table back untouched, instead of
\* raising, when the formula column is absent
apply_metabolite_mapping_passes_through(h, df, m, formula_column, new_metabolite_column) ==
    IF ~HasColumn(h[df], formula_column)
    THEN [heap |-> h, ret |-> df, exc |-> "none"]
    ELSE LET c == DataFrameCopy(h, df)
             values == [i \in DOMAIN c.heap[c.ref].rows |->
                          MapCell(c.heap[c.ref].rows[i][formula_column], m)]
         IN  [heap |-> [c.heap EXCEPT
                          ![c.ref] = SetColumn(@, new_metabolite_column, values)],
              ret |-> c.ref, exc |-> "none"]

\* apply_metabolite_mapping(target_df, mapping, formula_column,
\* new_metabolite_column) on the heap h
apply_metabolite_mapping(h, df, m, formula_column, new_metabolite_column) ==
    IF ~HasColumn(h[df], formula_column)
    THEN [heap |-> h, ret |-> 0, exc |-> "ValueError"]
    ELSE LET c == DataFrameCopy(h, df)
             values == [i \in DOMAIN c.heap[c.ref].rows |->
                          MapCell(c.heap[c.ref].rows[i][formula_column], m)]
             h2 == [c.heap EXCEPT
                      ![c.ref] = SetColumn(@, new_metabolite_column, values)]
             matches == Cardinality({i \in DOMAIN values : ~isna(values[i])})
             total == Len(h2[c.ref].rows)
             rate == NumpyDivide(matches, total)
         IN  IF rate.exc # "none"
             THEN [heap |-> h2, ret |-> 0, exc |-> rate.exc]
             ELSE [heap |-> h2, ret |-> c.ref, exc |-> "none"]

-----------------------------------------------------------------------------
(* Inputs of the reference mapper *)

RefFormulaCells ==
    {NaN, Text(<<" ">>), Text(<<"C">>), Text(<<" ", "C">>), Text(<<"O">>)}
RefNameCells ==
    {NaN, Text(<<" ">>), Text(<<"x">>), Text(<<"y", " ">>)}

\* Rows over a given list of columns, each cell drawn from its column's cells
RefCells(col) ==
    IF col = REFERENCE_FORMULA_COL THEN RefFormulaCells ELSE RefNameCells

RefRowSet(cols) ==
    {r \in [Range(cols) -> RefFormulaCells \cup RefNameCells] :
        \A c \in Range(cols) : r[c] \in RefCells(c)}

RefLayouts ==
    {<<REFERENCE_FORMULA_COL, REFERENCE_METABOLITE_COL>>,
     <<REFERENCE_FORMULA_COL>>,
     <<REFERENCE_METABOLITE_COL>>}

\* the table with the columns cols, in that order, and the rows rows
Table(cols, rows) == [columns |-> cols, rows |-> rows]

NoTable == [columns |-> <<>>, rows |-> <<>>]
NoParser == [t \in {} |-> [kind |-> "none", formula |-> <<>>]]

InitMapper ==
    /\ pc = "map_start"
    /\ \E cols \in RefLayouts, n \in 0..MaxRefRows :
          \E rs \in [1..n -> RefRowSet(cols)] : reference_df = Table(cols, rs)
    /\ idx = 0
    /\ formula_to_metabolite = EmptyMap
    /\ heap = <<>>
    /\ target_df = 0
    /\ before = NoTable
    /\ mapping = EmptyMap
    /\ parser = NoParser
    /\ smiles_column = ""
    /\ result_df = 0
    /\ result2_df = 0
    /\ exc = "none"
    /\ smiles = NaN
    /\ formula = <<>>
    /\ parser_calls = <<>>
    /\ ret = NoTable
    /\ MainIdle
    /\ MergeIdle

\* the column validation: raise ValueError when a named column is absent
MapperValidate ==
    /\ pc = "map_start"
    /\ LET r == create_formula_metabolite_mapping(
                   reference_df, REFERENCE_FORMULA_COL, REFERENCE_METABOLITE_COL)
       IN  /\ exc' = r.exc
           /\ pc' = IF r.exc = "none" THEN "map_loop" ELSE "map_raised"
    /\ UNCHANGED <<reference_df, idx, formula_to_metabolite, heap, target_df,
                   before, mapping, parser, smiles_column, result_df, result2_df,
                   smiles, formula, parser_calls, ret, main_vars, merge_vars>>

\* for idx, row in reference_df.iterrows(): one row
MapperIterate ==
    /\ pc = "map_loop"
    /\ idx < Len(reference_df.rows)
    /\ idx' = idx + 1
    /\ formula_to_metabolite' =
         MapRow(formula_to_metabolite, reference_df.rows[idx + 1],
                REFERENCE_FORMULA_COL, REFERENCE_METABOLITE_COL)
    /\ UNCHANGED <<pc, reference_df, heap, target_df, before, mapping, parser,
                   smiles_column, result_df, result2_df, exc, smiles, formula,
                   parser_calls, ret, main_vars, merge_vars>>

\* return formula_to_metabolite
MapperReturn ==
    /\ pc = "map_loop"
    /\ idx = Len(reference_df.rows)
    /\ pc' = "map_done"
    /\ mapping' = formula_to_metabolite
    /\ UNCHANGED <<reference_df, idx, formula_to_metabolite, heap, target_df,
                   before, parser, smiles_column, result_df, result2_df, exc,
                   smiles, formula, parser_calls, ret, main_vars, merge_vars>>

NextMapper == MapperValidate \/ MapperIterate \/ MapperReturn

SpecMapper == InitMapper /\ [][NextMapper]_vars

-----------------------------------------------------------------------------
(* One call of smiles_to_formula *)

DescriptorCells ==
    {NaN, Text(<<>>), Text(<<" ">>), Text(<<"c">>), Text(<<" ", "c", " ">>),
     Text(<<"n">>)}

\* the texts the parser can be handed: the non-empty trimmed descriptors
ParserInputs ==
    {strip(str(c)) : c \in {d \in DescriptorCells : ~isna(d)}} \ {<<>>}

ParserFormulas == {<<"C">>, <<" ", "O">>}

ParserAnswers ==
    {[kind |-> "mol", formula |-> f] : f \in ParserFormulas}
    \cup {[kind |-> k, formula |-> <<>>] : k \in {"mol_bad", "none", "raise"}}

Parsers == [ParserInputs -> ParserAnswers]

InitDerive ==
    /\ pc = "derive_start"
    /\ smiles \in DescriptorCells
    /\ parser \in Parsers
    /\ reference_df = NoTable
    /\ idx = 0
    /\ formula_to_metabolite = EmptyMap
    /\ heap = <<>>
    /\ target_df = 0
    /\ before = NoTable
    /\ mapping = EmptyMap
    /\ smiles_column = ""
    /\ result_df = 0
    /\ result2_df = 0
    /\ exc = "none"
    /\ formula = <<>>
    /\ parser_calls = <<>>
    /\ ret = NoTable
    /\ MainIdle
    /\ MergeIdle

\* formula = smiles_to_formula(smiles)
Derive ==
    /\ pc = "derive_start"
    /\ LET r == smiles_to_formula(smiles, parser)
       IN  /\ exc' = r.exc
           /\ formula' = r.ret
           /\ parser_calls' = r.calls
           /\ pc' = IF r.exc = "none" THEN "derive_returned" ELSE "derive_raised"
    /\ UNCHANGED <<reference_df, idx, formula_to_metabolite, heap, target_df,
                   before, mapping, parser, smiles_column, result_df, result2_df,
                   smiles, ret, main_vars, merge_vars>>

NextDerive == Derive

SpecDerive == InitDerive /\ [][NextDerive]_vars

-----------------------------------------------------------------------------
(* The table transforms: add_formula_column, apply_metabolite_mapping *)

SourceFormulaCells == {Text(<<"C">>)}
TargetFormulaCells ==
    {NaN, Text(<<"C">>), Text(<<" ", "C">>), Text(<<"c">>), Text(<<"O">>)}
TargetNameCells == {NaN, Text(<<"o", "l", "d">>)}
OtherCells == {Text(<<"1">>)}

\* tables handed to add_formula_column: a descriptor column under either
\* spelling, with or without a stale Formula column
SourceLayouts == {<<"id", "smiles">>, <<"SMILES", FORMULA>>}
\* tables handed to apply_metabolite_mapping: with a Formula column, with or
\* without a name column already there, or without a Formula column
TargetLayouts == {<<FORMULA, "id">>, <<FORMULA, METABOLITE_NAME>>, <<"id">>}

CellsOf(col, formulaCells) ==
    IF col \in {"smiles", "SMILES"} THEN DescriptorCells
    ELSE IF col = FORMULA THEN formulaCells
    ELSE IF col = METABOLITE_NAME THEN TargetNameCells
    ELSE OtherCells

AllCells ==
    DescriptorCells \cup SourceFormulaCells \cup TargetFormulaCells
    \cup TargetNameCells \cup OtherCells

RowsOver(cols, formulaCells) ==
    {r \in [Range(cols) -> AllCells] :
        \A c \in Range(cols) : r[c] \in CellsOf(c, formulaCells)}

\* the maps handed to apply_metabolite_mapping: any dict of text to text, keys
\* padded or not, names empty or not
MapKeys == {<<"C">>, <<" ", "C">>, <<"O">>}
MapNames == {<<>>, <<"x">>}
Maps == UNION {[ks -> MapNames] : ks \in SUBSET MapKeys}

InitTransform ==
    /\ pc = "start"
    /\ \/ /\ \E cols \in SourceLayouts, n \in 0..MaxRows :
                \E rs \in [1..n -> RowsOver(cols, SourceFormulaCells)] :
                   before = Table(cols, rs)
          /\ smiles_column \in {"smiles", "SMILES"}
          /\ parser \in Parsers
          /\ mapping = EmptyMap
       \/ /\ \E cols \in TargetLayouts, n \in 0..MaxRows :
                \E rs \in [1..n -> RowsOver(cols, TargetFormulaCells)] :
                   before = Table(cols, rs)
          /\ smiles_column = "smiles"
          /\ parser = NoParser
          /\ mapping \in Maps
    /\ heap = <<before>>
    /\ target_df = 1
    /\ reference_df = NoTable
    /\ idx = 0
    /\ formula_to_metabolite = EmptyMap
    /\ result_df = 0
    /\ result2_df = 0
    /\ exc = "none"
    /\ smiles = NaN
    /\ formula = <<>>
    /\ parser_calls = <<>>
    /\ ret = NoTable
    /\ MainIdle
    /\ MergeIdle

\* result_df = add_formula_column(target_df, smiles_column, "Formula")
AddFormulaColumn ==
    /\ pc = "start"
    /\ LET r == add_formula_column(heap, target_df, smiles_column, FORMULA, parser)
       IN  /\ heap' = r.heap
           /\ result_df' = r.ret
           /\ exc' = r.exc
           /\ pc' = IF r.exc = "none" THEN "derived" ELSE "derive_failed"
    /\ UNCHANGED <<reference_df, idx, formula_to_metabolite, target_df, before,
                   mapping, parser, smiles_column, result2_df, smiles, formula,
                   parser_calls, ret, main_vars, merge_vars>>

\* result_df = apply_metabolite_mapping(target_df, mapping, "Formula", "Metabolite name")
Apply ==
    /\ pc = "start"
    /\ LET r == apply_metabolite_mapping(heap, target_df, mapping, FORMULA,
                                         METABOLITE_NAME)
       IN  /\ heap' = r.heap
           /\ result_df' = r.ret
           /\ exc' = r.exc
           /\ pc' = IF r.exc = "none" THEN "applied" ELSE "apply_failed"
    /\ UNCHANGED <<reference_df, idx, formula_to_metabolite, target_df, before,
                   mapping, parser, smiles_column, result2_df, smiles, formula,
                   parser_calls, ret, main_vars, merge_vars>>

\* result2_df = apply_metabolite_mapping(result_df, mapping, "Formula", "Metabolite name")
ApplyAgain ==
    /\ pc = "applied"
    /\ LET r == apply_metabolite_mapping(heap, result_df, mapping, FORMULA,
                                         METABOLITE_NAME)
       IN  /\ heap' = r.heap
           /\ result2_df' = r.ret
           /\ exc' = r.exc
           /\ pc' = IF r.exc = "none" THEN "applied_twice" ELSE "apply_failed"
    /\ UNCHANGED <<reference_df, idx, formula_to_metabolite, target_df, before,
                   mapping, parser, smiles_column, result_df, smiles, formula,
                   parser_calls, ret, main_vars, merge_vars>>

NextTransform == AddFormulaColumn \/ Apply \/ ApplyAgain

SpecTransform == InitTransform /\ [][NextTransform]_vars

-----------------------------------------------------------------------------
(* Properties of the reference mapper, checked under SpecMapper *)

RefHasBothColumns ==
    /\ HasColumn(reference_df, REFERENCE_FORMULA_COL)
    /\ HasColumn(reference_df, REFERENCE_METABOLITE_COL)

RefFormula(i) == reference_df.rows[i][REFERENCE_FORMULA_COL]
RefName(i) == reference_df.rows[i][REFERENCE_METABOLITE_COL]

\* row i has formula and name both present and both non-empty after trimming
Complete(i) ==
    /\ ~isna(RefFormula(i))
    /\ ~isna(RefName(i))
    /\ strip(str(RefFormula(i))) # <<>>
    /\ strip(str(RefName(i))) # <<>>

\* row i bears formula k (a present formula cell that reads k once trimmed)
Bears(i, k) == ~isna(RefFormula(i)) /\ strip(str(RefFormula(i))) = k

BearersOf(k) == {i \in 1..Len(reference_df.rows) : Bears(i, k)}
CompleteBearersOf(k) == {i \in BearersOf(k) : Complete(i)}

Min(S) == CHOOSE i \in S : \A j \in S : i <= j

FormulasBorne ==
    {strip(str(RefFormula(i))) :
        i \in {j \in 1..Len(reference_df.rows) : ~isna(RefFormula(j))}}

TrimmedText(s) ==
    s # <<>> /\ s[1] \notin Whitespace /\ s[Len(s)] \notin Whitespace

\* C1 as stated: for every formula borne by more than one row, the name the
\* returned map holds for it is the name of the first row, in table order,
\* that bears it, never the name of a later row.
C1_FirstBearerWins ==
    pc = "map_done" =>
        \A k \in FormulasBorne \ {<<>>} :
            (Cardinality(BearersOf(k)) > 1 /\ k \in DOMAIN mapping) =>
                /\ ~isna(RefName(Min(BearersOf(k))))
                /\ mapping[k] = strip(str(RefName(Min(BearersOf(k)))))

\* C1 amended: for every formula borne by more than one row, the returned map
\* holds the name of the first row bearing it whose formula and name are both
\* present and non-empty after trimming, never that of a later row; a formula
\* that no such row bears has no entry.
C1_FirstCompleteBearerWins ==
    pc = "map_done" =>
        \A k \in FormulasBorne \ {<<>>} :
            Cardinality(BearersOf(k)) > 1 =>
                IF CompleteBearersOf(k) = {}
                THEN k \notin DOMAIN mapping
                ELSE /\ k \in DOMAIN mapping
                     /\ mapping[k] = strip(str(RefName(Min(CompleteBearersOf(k)))))

\* C1 witness: a returned map for a table where two complete rows bear the same
\* formula under different names, after an incomplete row that bears it too.
C1_Witness ==
    /\ pc = "map_done"
    /\ \E k \in DOMAIN mapping :
          \E i, j \in CompleteBearersOf(k) :
             /\ i < j
             /\ strip(str(RefName(i))) # strip(str(RefName(j)))
             /\ \E h \in BearersOf(k) : h < i /\ ~Complete(h)

\* C6: for a reference table with both columns, the map never has more
\* entries than there are complete rows, the call raises nothing, and with no
\* complete row the returned map is empty.
C6_EntriesBoundedByCompleteRows ==
    RefHasBothColumns =>
        /\ exc = "none"
        /\ pc # "map_raised"
        /\ Cardinality(DOMAIN formula_to_metabolite)
             <= Cardinality({i \in 1..idx : Complete(i)})
        /\ pc = "map_done" =>
             /\ mapping = formula_to_metabolite
             /\ ({i \in 1..Len(reference_df.rows) : Complete(i)} = {}
                    => mapping = EmptyMap)

\* C6 witness: the map returned for a table of several rows none of which is
\* complete, one of them with a whitespace-only formula and a present name.
C6_Witness ==
    /\ pc = "map_done"
    /\ Len(reference_df.rows) >= 2
    /\ {i \in 1..Len(reference_df.rows) : Complete(i)} = {}
    /\ \E i \in 1..Len(reference_df.rows) :
          /\ ~isna(RefFormula(i)) /\ ~isna(RefName(i))
          /\ strip(str(RefName(i))) # <<>>
    /\ mapping = EmptyMap

\* C7: after any prefix of the rows, every key and every value of the map is
\* non-empty text without leading or trailing whitespace, and the keys are
\* exactly the trimmed formulas of the complete rows of that prefix (so only
\* complete rows contribute, and rows equal after trimming share one key).
C7_KeysAndValuesTrimmed ==
    pc \in {"map_loop", "map_done"} =>
        /\ \A k \in DOMAIN formula_to_metabolite :
              TrimmedText(k) /\ TrimmedText(formula_to_metabolite[k])
        /\ DOMAIN formula_to_metabolite =
              {strip(str(RefFormula(i))) : i \in {j \in 1..idx : Complete(j)}}

\* C7 witness: a prefix of two rows, the first complete with a padded formula
\* and a padded name, the second bearing the same formula unpadded.
C7_Witness ==
    /\ pc = "map_loop"
    /\ idx >= 2
    /\ Complete(1) /\ Complete(2)
    /\ str(RefFormula(1)) # strip(str(RefFormula(1)))
    /\ str(RefFormula(2)) = strip(str(RefFormula(1)))
    /\ str(RefName(1)) # strip(str(RefName(1))) \/ str(RefName(2)) # strip(str(RefName(2)))
    /\ Cardinality(DOMAIN formula_to_metabolite) = 1

-----------------------------------------------------------------------------
(* Properties of the mapping applier, checked under SpecTransform *)

Result == heap[result_df]
Result2 == heap[result2_df]

\* the columns of a table after "table[col] = ..."
ColumnsWith(df, col) ==
    IF HasColumn(df, col) THEN df.columns ELSE Append(df.columns, col)

\* rows i of a and b agree in every column of a other than col
SameRowBut(a, b, i, col) ==
    \A c \in Range(a.columns) \ {col} : b.rows[i][c] = a.rows[i][c]

\* C2: for a target table with the formula column, the call returns and the
\* name of each row is the map's value for the key exactly equal to the row's
\* formula, and the missing marker when no key equals it; the missing marker
\* is not text, so it differs from a row matched to the empty name.
C2_ExactMatchOrAbsent ==
    (pc = "applied" /\ HasColumn(before, FORMULA)) =>
        /\ exc = "none"
        /\ Len(Result.rows) = Len(before.rows)
        /\ \A i \in DOMAIN before.rows :
              LET f == before.rows[i][FORMULA]
                  name == Result.rows[i][METABOLITE_NAME]
              IN  IF ~isna(f) /\ (\E k \in DOMAIN mapping : k = f.s)
                  THEN ~isna(name) /\ name.s = mapping[f.s]
                  ELSE isna(name) /\ name # Text(<<>>)

\* C2 witness: a result where one row's formula is a key up to padding only
\* and got the missing marker, and another row matched the empty name.
C2_Witness ==
    /\ pc = "applied"
    /\ exc = "none"
    /\ \E i, j \in DOMAIN before.rows :
          /\ ~isna(before.rows[i][FORMULA])
          /\ before.rows[i][FORMULA].s \notin DOMAIN mapping
          /\ strip(before.rows[i][FORMULA].s) \in DOMAIN mapping
          /\ isna(Result.rows[i][METABOLITE_NAME])
          /\ Result.rows[j][METABOLITE_NAME] = Text(<<>>)

\* C3: for a target table with the formula column, zero rows included, the
\* call returns a table with as many rows as its input, in the same order
\* (every other column of every row as it was), each row carrying a name of
\* the map or the missing marker.
C3_RowPreserving ==
    (pc \in {"applied", "apply_failed"} /\ result2_df = 0
        /\ HasColumn(before, FORMULA)) =>
        /\ pc = "applied"
        /\ exc = "none"
        /\ result_df # 0
        /\ Result.columns = ColumnsWith(before, METABOLITE_NAME)
        /\ Len(Result.rows) = Len(before.rows)
        /\ \A i \in DOMAIN before.rows :
              /\ SameRowBut(before, Result, i, METABOLITE_NAME)
              /\ \/ isna(Result.rows[i][METABOLITE_NAME])
                 \/ Result.rows[i][METABOLITE_NAME].s \in Range(mapping)

\* C3 witness: the call returned for a table that has the formula column and
\* no row.
C3_Witness ==
    /\ pc = "applied"
    /\ HasColumn(before, FORMULA)
    /\ before.rows = <<>>
    /\ result_df # 0
    /\ Result.rows = <<>>
    /\ HasColumn(Result, METABOLITE_NAME)

\* C4: no step of add_formula_column or apply_metabolite_mapping, returning or
\* raising, changes a table that existed when the call was made: the table
\* handed in, and every table an earlier call returned, keeps its columns,
\* rows and cells.
C4_InputUnmodified ==
    [][/\ \A r \in DOMAIN heap : r \in DOMAIN heap' /\ heap'[r] = heap[r]
       /\ heap'[target_df] = before]_vars

\* C4 witness: add_formula_column returned a table that differs from the one
\* it was handed.
C4_Witness ==
    /\ pc = "derived"
    /\ result_df # target_df
    /\ before.rows # <<>>
    /\ Result # before
    /\ heap[target_df] = before

\* C5: applying the same map to the result of applying it returns a table
\* equal to that result in every column and row.
C5_ApplyIdempotent ==
    pc = "applied_twice" =>
        /\ exc = "none"
        /\ result2_df # 0
        /\ Result2 = Result

\* C5 witness: a second application on a table with a matched row, an
\* unmatched row and a name column that the first application overwrote.
C5_Witness ==
    /\ pc = "applied_twice"
    /\ HasColumn(before, METABOLITE_NAME)
    /\ \E i, j \in DOMAIN Result2.rows :
          /\ isna(Result2.rows[i][METABOLITE_NAME])
          /\ ~isna(Result2.rows[j][METABOLITE_NAME])
          /\ before.rows[i][METABOLITE_NAME] # Result.rows[i][METABOLITE_NAME]

-----------------------------------------------------------------------------
(* Properties of the formula deriver *)

\* C8 (SpecDerive): a missing, empty or whitespace-only descriptor returns
\* "Error" and the parser is not called; any other descriptor is handed to the
\* parser trimmed, and the call returns "Invalid" when the parser finds no
\* valid structure and the parser's formula as it is when it finds one.
C8_DeriveOutcome ==
    pc # "derive_start" =>
        IF isna(smiles) \/ strip(str(smiles)) = <<>>
        THEN pc = "derive_returned" /\ formula = ErrorText /\ parser_calls = <<>>
        ELSE /\ parser_calls = <<strip(str(smiles))>>
             /\ LET answer == parser[strip(str(smiles))]
                IN  /\ answer.kind = "none" =>
                         pc = "derive_returned" /\ formula = InvalidText
                    /\ answer.kind = "mol" =>
                         pc = "derive_returned" /\ formula = answer.formula

\* C8 witness: a padded descriptor for which the parser produced a padded
\* formula, returned as produced.
C8_Witness ==
    /\ pc = "derive_returned"
    /\ ~isna(smiles)
    /\ str(smiles) # strip(str(smiles))
    /\ parser_calls = <<strip(str(smiles))>>
    /\ formula = parser[strip(str(smiles))].formula
    /\ formula # strip(formula)

\* C9 (SpecDerive): the call always returns, with a formula of the parser,
\* "Invalid" or "Error"; when the parser or the formula calculator raises it
\* returns "Error".
C9_NeverRaises ==
    pc # "derive_start" =>
        /\ pc = "derive_returned"
        /\ exc = "none"
        /\ formula \in ParserFormulas \cup {InvalidText, ErrorText}
        /\ \A s \in Range(parser_calls) :
              parser[s].kind \in {"raise", "mol_bad"} => formula = ErrorText

\* C9 witness: the parser raised and the call returned "Error".
C9_Witness ==
    /\ pc = "derive_returned"
    /\ parser_calls # <<>>
    /\ parser[parser_calls[1]].kind = "raise"
    /\ formula = ErrorText

\* C10 (SpecTransform): for a table with the source column, add_formula_column
\* returns a table with the same rows in the same order and the formula
\* column, where each row's formula is the text smiles_to_formula returns for
\* that row's descriptor, sentinel or not, whatever the other rows yield.
C10_FormulaPerRow ==
    (pc \in {"derived", "derive_failed"} /\ HasColumn(before, smiles_column)) =>
        /\ pc = "derived"
        /\ exc = "none"
        /\ Result.columns = ColumnsWith(before, FORMULA)
        /\ Len(Result.rows) = Len(before.rows)
        /\ \A i \in DOMAIN before.rows :
              /\ SameRowBut(before, Result, i, FORMULA)
              /\ Result.rows[i][FORMULA] =
                   Text(smiles_to_formula(before.rows[i][smiles_column], parser).ret)

\* C10 witness: a returned table whose first row holds a sentinel and whose
\* second row holds a formula of the parser.
C10_Witness ==
    /\ pc = "derived"
    /\ Len(Result.rows) = 2
    /\ Result.rows[1][FORMULA] \in {Text(InvalidText), Text(ErrorText)}
    /\ Result.rows[2][FORMULA].s \in ParserFormulas

-----------------------------------------------------------------------------
(* The three functions that name a column, together *)

InitColumns == InitMapper \/ InitTransform

NextColumns == NextMapper \/ NextTransform

SpecColumns == InitColumns /\ [][NextColumns]_vars

\* C11 (SpecColumns): each of the three functions raises ValueError exactly
\* when a column it names is absent, and then nothing is returned (no table,
\* no map, no row iterated) and the table handed in is as it was.
C11_MissingColumnRaises ==
    /\ pc \in {"map_loop", "map_done", "map_raised"} =>
         /\ (pc = "map_raised") <=> ~RefHasBothColumns
         /\ pc = "map_raised" =>
              /\ exc = "ValueError"
              /\ idx = 0
              /\ formula_to_metabolite = EmptyMap
              /\ mapping = EmptyMap
    /\ pc \in {"derived", "derive_failed"} =>
         /\ (pc = "derive_failed") <=> ~HasColumn(before, smiles_column)
         /\ pc = "derive_failed" =>
              exc = "ValueError" /\ result_df = 0 /\ heap = <<before>>
    /\ pc \in {"applied", "apply_failed"} =>
         /\ (pc = "apply_failed") <=> ~HasColumn(before, FORMULA)
         /\ pc = "apply_failed" =>
              exc = "ValueError" /\ result_df = 0 /\ heap = <<before>>

\* C11 witness: apply_metabolite_mapping raised ValueError on a table with rows
\* and no Formula column.
C11_Witness ==
    /\ pc = "apply_failed"
    /\ exc = "ValueError"
    /\ ~HasColumn(before, FORMULA)
    /\ before.rows # <<>>
    /\ heap = <<before>>

-----------------------------------------------------------------------------
(* find_smiles_column (src/smiles_utils.py) *)

MaxCols == 3

\* Python's None where a column label is expected; no column bears this label
None == "None"

\* column labels pandas reads from header cells that hold a number: they are
\* int objects, not str
NumericLabels == {"2024"}

\* the characters of a text label; a label spelt with other letters than the
\* ones of "smiles" is kept whole, as one symbol
Spelling(col) ==
    CASE col = "smiles"    -> <<"s", "m", "i", "l", "e", "s">>
      [] col = "SMILES"    -> <<"S", "M", "I", "L", "E", "S">>
      [] col = "Smiles"    -> <<"S", "m", "i", "l", "e", "s">>
      [] col = " smiles"   -> <<" ", "s", "m", "i", "l", "e", "s">>
      [] col = "smiles_id" -> <<"s", "m", "i", "l", "e", "s", "_", "i", "d">>
      [] OTHER             -> <<col>>

LowerChar(c) ==
    CASE c = "S" -> "s"
      [] c = "M" -> "m"
      [] c = "I" -> "i"
      [] c = "L" -> "l"
      [] c = "E" -> "e"
      [] OTHER   -> c

\* str.lower()
lower(s) == [i \in DOMAIN s |-> LowerChar(s[i])]

SmilesText == <<"s", "m", "i", "l", "e", "s">>

\* for col in df.columns: if col.lower() == 'smiles': return col
\* (an int label has no attribute lower)
RECURSIVE find_smiles_column_from(_, _)
find_smiles_column_from(columns, i) ==
    IF i > Len(columns) THEN [exc |-> "none", ret |-> None]
    ELSE IF columns[i] \in NumericLabels
    THEN [exc |-> "AttributeError", ret |-> None]
    ELSE IF lower(Spelling(columns[i])) = SmilesText
    THEN [exc |-> "none", ret |-> columns[i]]
    ELSE find_smiles_column_from(columns, i + 1)

find_smiles_column(df) == find_smiles_column_from(df.columns, 1)

\* the labels a searched table may bear
LocateLabels ==
    {"smiles", "SMILES", "Smiles", " smiles", "smiles_id", "id", "2024"}

InitLocate ==
    /\ pc = "locate_start"
    /\ \E n \in 0..MaxCols : \E cols \in [1..n -> LocateLabels] :
          /\ \A i, j \in 1..n : cols[i] = cols[j] => i = j
          /\ before = Table(cols, <<>>)
    /\ heap = <<before>>
    /\ target_df = 1
    /\ reference_df = NoTable
    /\ idx = 0
    /\ formula_to_metabolite = EmptyMap
    /\ mapping = EmptyMap
    /\ parser = NoParser
    /\ smiles_column = None
    /\ result_df = 0
    /\ result2_df = 0
    /\ exc = "none"
    /\ smiles = NaN
    /\ formula = <<>>
    /\ parser_calls = <<>>
    /\ ret = NoTable
    /\ MainIdle
    /\ MergeIdle

\* smiles_column = find_smiles_column(target_df)
Locate ==
    /\ pc = "locate_start"
    /\ LET r == find_smiles_column(heap[target_df])
       IN  /\ smiles_column' = r.ret
           /\ exc' = r.exc
           /\ pc' = IF r.exc = "none" THEN "located" ELSE "locate_raised"
    /\ UNCHANGED <<reference_df, idx, formula_to_metabolite, heap, target_df,
                   before, mapping, parser, result_df, result2_df, smiles,
                   formula, parser_calls, ret, main_vars, merge_vars>>

NextLocate == Locate

SpecLocate == InitLocate /\ [][NextLocate]_vars

\* the labels that read "smiles" once their letters are put in one case
SmilesNamed(col) == col \in {"smiles", "SMILES", "Smiles"}

\* C12: find_smiles_column returns, for every table, the first column in
\* column order whose name is "smiles" up to letter case (the whole name, no
\* trimming, no substring), and None when no column is so named; the table is
\* left as it was.
C12_FindsFirstSmilesColumn ==
    pc # "locate_start" =>
        /\ pc = "located"
        /\ exc = "none"
        /\ heap = <<before>>
        /\ LET matches == {i \in DOMAIN before.columns :
                              SmilesNamed(before.columns[i])}
           IN  IF matches = {} THEN smiles_column = None
               ELSE \E i \in matches :
                       /\ \A j \in matches : i <= j
                       /\ smiles_column = before.columns[i]

-----------------------------------------------------------------------------
(* The reports: get_formula_statistics (src/smiles_utils.py),
   get_mapping_statistics and find_unmatched_formulas
   (src/metabolite_mapper.py) *)

MaxStatRows == 3

\* (series == value).sum() / series.notna().sum(): the number of rows, taken
\* in order, whose cell under col is in the set wanted
RECURSIVE CountRows(_, _, _)
CountRows(rows, col, wanted) ==
    IF rows = <<>> THEN 0
    ELSE (IF Head(rows)[col] \in wanted THEN 1 ELSE 0)
         + CountRows(Tail(rows), col, wanted)

\* the rate the reports give for no rows at all: the integer 0
ZeroRate == [exc |-> "none", nan |-> FALSE, tenths |-> 0]

\* get_formula_statistics counting a missing formula as a failure
get_formula_statistics_missing_not_valid(df, formula_column) ==
    IF ~HasColumn(df, formula_column)
    THEN [exc |-> "ValueError", ret |-> NoTable]
    ELSE LET total == Len(df.rows)
             invalid_count == CountRows(df.rows, formula_column, {Text(InvalidText)})
             error_count == CountRows(df.rows, formula_column, {Text(ErrorText)})
             valid_count == total - invalid_count - error_count
                            - CountRows(df.rows, formula_column, {NaN})
         IN  [exc |-> "none",
              ret |-> [total |-> total, valid |-> valid_count,
                       invalid |-> invalid_count, error |-> error_count,
                       success_rate |-> IF total > 0
                                        THEN NumpyDivide(valid_count, total)
                                        ELSE ZeroRate]]

get_formula_statistics(df, formula_column) ==
    IF ~HasColumn(df, formula_column)
    THEN [exc |-> "ValueError", ret |-> NoTable]
    ELSE LET total == Len(df.rows)
             invalid_count == CountRows(df.rows, formula_column, {Text(InvalidText)})
             error_count == CountRows(df.rows, formula_column, {Text(ErrorText)})
             valid_count == total - invalid_count - error_count
         IN  [exc |-> "none",
              ret |-> [total |-> total, valid |-> valid_count,
                       invalid |-> invalid_count, error |-> error_count,
                       success_rate |-> IF total > 0
                                        THEN NumpyDivide(valid_count, total)
                                        ELSE ZeroRate]]

\* get_mapping_statistics dividing whatever the total is
get_mapping_statistics_unguarded(df, metabolite_column) ==
    IF ~HasColumn(df, metabolite_column)
    THEN [exc |-> "ValueError", ret |-> NoTable]
    ELSE LET total == Len(df.rows)
             matched == total - CountRows(df.rows, metabolite_column, {NaN})
         IN  [exc |-> "none",
              ret |-> [total |-> total, matched |-> matched,
                       unmatched |-> total - matched,
                       success_rate |-> NumpyDivide(matched, total)]]

get_mapping_statistics(df, metabolite_column) ==
    IF ~HasColumn(df, metabolite_column)
    THEN [exc |-> "ValueError", ret |-> NoTable]
    ELSE LET total == Len(df.rows)
             \* notna().sum()
             matched == total - CountRows(df.rows, metabolite_column, {NaN})
             unmatched == total - matched
         IN  [exc |-> "none",
              ret |-> [total |-> total, matched |-> matched,
                       unmatched |-> unmatched,
                       success_rate |-> IF total > 0
                                        THEN NumpyDivide(matched, total)
                                        ELSE ZeroRate]]

\* Series.unique(): the values in order of first appearance
RECURSIVE unique(_)
unique(s) ==
    IF s = <<>> THEN <<>>
    ELSE LET init == unique(SubSeq(s, 1, Len(s) - 1))
             last == s[Len(s)]
         IN  IF last \in Range(init) THEN init ELSE Append(init, last)

\* target_df.loc[unmatched_mask, formula_column]: the formula cells, in row
\* order, of the rows whose name is missing and whose formula is not
RECURSIVE unmatched_cells(_, _, _)
unmatched_cells(rows, formula_column, metabolite_column) ==
    IF rows = <<>> THEN <<>>
    ELSE (IF /\ isna(Head(rows)[metabolite_column])
             /\ ~isna(Head(rows)[formula_column])
          THEN <<Head(rows)[formula_column]>>
          ELSE <<>>)
         \o unmatched_cells(Tail(rows), formula_column, metabolite_column)

find_unmatched_formulas(df, formula_column, metabolite_column) ==
    IF ~HasColumn(df, formula_column) \/ ~HasColumn(df, metabolite_column)
    THEN [exc |-> "ValueError", ret |-> <<>>]
    ELSE [exc |-> "none",
          ret |-> unique(unmatched_cells(df.rows, formula_column,
                                         metabolite_column))]

\* the cells of the tables reported on: formulas derived or not, names found
\* or not
StatFormulaCells ==
    {NaN, Text(<<"C">>), Text(<<"O">>), Text(InvalidText), Text(ErrorText)}
StatNameCells == {NaN, Text(<<"x">>)}
StatLayouts ==
    {<<FORMULA, METABOLITE_NAME>>, <<FORMULA>>, <<METABOLITE_NAME>>, <<"id">>}

StatCellsOf(col) ==
    IF col = FORMULA THEN StatFormulaCells
    ELSE IF col = METABOLITE_NAME THEN StatNameCells
    ELSE OtherCells

StatRows(cols) ==
    {r \in [Range(cols) -> StatFormulaCells \cup StatNameCells \cup OtherCells] :
        \A c \in Range(cols) : r[c] \in StatCellsOf(c)}

InitStats ==
    /\ pc = "stats_start"
    /\ \E cols \in StatLayouts, n \in 0..MaxStatRows :
          \E rs \in [1..n -> StatRows(cols)] : before = Table(cols, rs)
    /\ heap = <<before>>
    /\ target_df = 1
    /\ reference_df = NoTable
    /\ idx = 0
    /\ formula_to_metabolite = EmptyMap
    /\ mapping = EmptyMap
    /\ parser = NoParser
    /\ smiles_column = None
    /\ result_df = 0
    /\ result2_df = 0
    /\ exc = "none"
    /\ smiles = NaN
    /\ formula = <<>>
    /\ parser_calls = <<>>
    /\ ret = NoTable
    /\ MainIdle
    /\ MergeIdle

\* ret = get_formula_statistics(target_df)
GetFormulaStatistics ==
    /\ pc = "stats_start"
    /\ LET r == get_formula_statistics(heap[target_df], FORMULA)
       IN  /\ ret' = r.ret
           /\ exc' = r.exc
           /\ pc' = IF r.exc = "none" THEN "formula_stats"
                    ELSE "formula_stats_raised"
    /\ UNCHANGED <<reference_df, idx, formula_to_metabolite, heap, target_df,
                   before, mapping, parser, smiles_column, result_df,
                   result2_df, smiles, formula, parser_calls, main_vars, merge_vars>>

\* ret = get_mapping_statistics(target_df)
GetMappingStatistics ==
    /\ pc = "stats_start"
    /\ LET r == get_mapping_statistics(heap[target_df], METABOLITE_NAME)
       IN  /\ ret' = r.ret
           /\ exc' = r.exc
           /\ pc' = IF r.exc = "none" THEN "mapping_stats"
                    ELSE "mapping_stats_raised"
    /\ UNCHANGED <<reference_df, idx, formula_to_metabolite, heap, target_df,
                   before, mapping, parser, smiles_column, result_df,
                   result2_df, smiles, formula, parser_calls, main_vars, merge_vars>>

\* ret = find_unmatched_formulas(target_df)
FindUnmatchedFormulas ==
    /\ pc = "stats_start"
    /\ LET r == find_unmatched_formulas(heap[target_df], FORMULA, METABOLITE_NAME)
       IN  /\ ret' = r.ret
           /\ exc' = r.exc
           /\ pc' = IF r.exc = "none" THEN "unmatched_found"
                    ELSE "unmatched_raised"
    /\ UNCHANGED <<reference_df, idx, formula_to_metabolite, heap, target_df,
                   before, mapping, parser, smiles_column, result_df,
                   result2_df, smiles, formula, parser_calls, main_vars, merge_vars>>

NextStats == GetFormulaStatistics \/ GetMappingStatistics \/ FindUnmatchedFormulas

SpecStats == InitStats /\ [][NextStats]_vars

\* the rows of the table reported on whose cell under col is in the set wanted
RowsWith(col, wanted) ==
    {i \in DOMAIN before.rows : before.rows[i][col] \in wanted}

\* the formula cells that record a failed derivation
FailedDerivation == {Text(InvalidText), Text(ErrorText)}

\* the rows whose name is missing and whose formula was derived
UnmatchedRows ==
    {i \in DOMAIN before.rows :
        /\ isna(before.rows[i][METABOLITE_NAME])
        /\ ~isna(before.rows[i][FORMULA])
        /\ before.rows[i][FORMULA] \notin FailedDerivation}

\* C13: find_unmatched_formulas returns exactly the formula values of the
\* rows whose name is missing and whose formula is present, rows whose formula
\* derivation failed or is missing left out, each value once, in order of
\* first appearance.
C13_UnmatchedExcludesFailedDerivations ==
    pc = "unmatched_found" =>
        /\ Range(ret) = {before.rows[i][FORMULA] : i \in UnmatchedRows}
        /\ \A i, j \in DOMAIN ret : ret[i] = ret[j] => i = j
        /\ \A i, j \in DOMAIN ret :
              i < j =>
                 \E k \in UnmatchedRows :
                    /\ before.rows[k][FORMULA] = ret[i]
                    /\ \A l \in UnmatchedRows :
                          before.rows[l][FORMULA] = ret[j] => k < l

\* C14: on a table with the formula column, get_formula_statistics counts the
\* rows whose formula is "Invalid" as invalid, those whose formula is "Error"
\* as error and every other row, missing formulas included, as valid, so that
\* total = valid + invalid + error; success_rate is valid / total * 100, and 0
\* when there is no row.
C14_FormulaStatistics ==
    /\ pc \in {"formula_stats", "formula_stats_raised"} =>
          (pc = "formula_stats" <=> HasColumn(before, FORMULA))
    /\ pc = "formula_stats" =>
          LET total == Len(before.rows)
          IN  /\ ret.total = total
              /\ ret.invalid = Cardinality(RowsWith(FORMULA, {Text(InvalidText)}))
              /\ ret.error = Cardinality(RowsWith(FORMULA, {Text(ErrorText)}))
              /\ ret.valid =
                    Cardinality(RowsWith(FORMULA, StatFormulaCells \ FailedDerivation))
              /\ ret.total = ret.valid + ret.invalid + ret.error
              /\ ~ret.success_rate.nan
              /\ ret.success_rate.tenths =
                    IF total = 0 THEN 0 ELSE (ret.valid * 1000) \div total
              /\ total = 0 =>
                    ret = [total |-> 0, valid |-> 0, invalid |-> 0, error |-> 0,
                           success_rate |-> ZeroRate]

\* three rows: a missing formula, an "Invalid" and an "Error"; one of three is valid
C14_Witness ==
    /\ pc = "formula_stats"
    /\ Len(before.rows) = 3
    /\ RowsWith(FORMULA, {NaN}) # {}
    /\ ret.valid = 1
    /\ ret.invalid = 1
    /\ ret.error = 1
    /\ ret.success_rate.tenths = 333

-----------------------------------------------------------------------------
(* The run: main, process_formulas, process_metabolite_mapping
   (src/process_metabolites.py) and the ExcelProcessor
   (src/excel_processor.py).  A dict of sheets is the sequence of its
   (name, table) items in insertion order. *)

MaxSheets == 2

REFERENCE_SHEET == "Sheet1"

\* the return statements of main
SuccessStatus == 0
ValidationStatus == 1
SaveFailedStatus == 1
\* main swallowing an unexpected exception
UnexpectedStatusSwallowed == 1 - 1
UnexpectedStatus == 1

\* the keys of a dict of sheets
Names(d) == {d[i].name : i \in DOMAIN d}

\* d[name]
Get(d, name) == d[CHOOSE i \in DOMAIN d : d[i].name = name].df

\* d[name] = df
Put(d, name, df) ==
    IF name \in Names(d)
    THEN [i \in DOMAIN d |-> IF d[i].name = name THEN [name |-> name, df |-> df]
                             ELSE d[i]]
    ELSE Append(d, [name |-> name, df |-> df])

\* DataFrame.empty: no row or no column
Empty(df) == df.rows = <<>> \/ df.columns = <<>>

\* validate_excel_file(file_path): is_valid
validate_excel_file(f) ==
    IF ~f.exists THEN FALSE
    ELSE /\ f.sheets # <<>>
         /\ \A i \in DOMAIN f.sheets : ~Empty(f.sheets[i].df)

\* validate_reference_sheet looking for the sheet only
validate_reference_sheet_ignores_columns(sd, reference_sheet) ==
    IF reference_sheet \notin Names(sd)
    THEN [is_valid |-> FALSE, error |-> "not found"]
    ELSE [is_valid |-> TRUE, error |-> ""]

\* validate_reference_sheet without the test for a complete pair
validate_reference_sheet_skips_pair_check(sd, reference_sheet) ==
    IF reference_sheet \notin Names(sd)
    THEN [is_valid |-> FALSE, error |-> "not found"]
    ELSE LET df == Get(sd, reference_sheet)
         IN  IF \/ ~HasColumn(df, REFERENCE_FORMULA_COL)
                \/ ~HasColumn(df, REFERENCE_METABOLITE_COL)
             THEN [is_valid |-> FALSE, error |-> "missing columns"]
             ELSE IF Empty(df)
             THEN [is_valid |-> FALSE, error |-> "empty"]
             ELSE [is_valid |-> TRUE, error |-> ""]

\* processor.validate_reference_sheet(reference_sheet): (is_valid, error)
validate_reference_sheet(sd, reference_sheet) ==
    IF reference_sheet \notin Names(sd)
    THEN [is_valid |-> FALSE, error |-> "not found"]
    ELSE LET df == Get(sd, reference_sheet)
         IN  IF \/ ~HasColumn(df, REFERENCE_FORMULA_COL)
                \/ ~HasColumn(df, REFERENCE_METABOLITE_COL)
             THEN [is_valid |-> FALSE, error |-> "missing columns"]
             ELSE IF Empty(df)
             THEN [is_valid |-> FALSE, error |-> "empty"]
             \* df[['chemical_formula', 'Metabolite name']].dropna().empty
             ELSE IF \A i \in DOMAIN df.rows :
                        \/ isna(df.rows[i][REFERENCE_FORMULA_COL])
                        \/ isna(df.rows[i][REFERENCE_METABOLITE_COL])
             THEN [is_valid |-> FALSE, error |-> "no pairs"]
             ELSE [is_valid |-> TRUE, error |-> ""]

\* the inner loop of find_smiles_columns from column i on:
\* for col in df.columns: if col.lower() == 'smiles': smiles_col = col; break
RECURSIVE scan_with_break(_, _, _)
scan_with_break(columns, i, smiles_col) ==
    IF i > Len(columns) THEN [exc |-> "none", ret |-> smiles_col]
    ELSE IF columns[i] \in NumericLabels
    THEN [exc |-> "AttributeError", ret |-> None]
    ELSE IF lower(Spelling(columns[i])) = SmilesText
    THEN [exc |-> "none", ret |-> columns[i]]
    ELSE scan_with_break(columns, i + 1, smiles_col)

\* processor.find_smiles_columns(): smiles_col = None and the inner loop for
\* every sheet, in sheet order; the exception of a scan leaves the method
find_smiles_columns(sd) ==
    LET r(i) == scan_with_break(sd[i].df.columns, 1, None)
    IN  [exc |-> IF \E i \in DOMAIN sd : r(i).exc # "none"
                 THEN "AttributeError" ELSE "none",
         ret |-> [i \in DOMAIN sd |-> [name |-> sd[i].name, col |-> r(i).ret]]]

\* any(col.lower() == 'smiles' for col in df.columns), from column i on
RECURSIVE any_smiles(_, _)
any_smiles(columns, i) ==
    IF i > Len(columns) THEN [exc |-> "none", ret |-> FALSE]
    ELSE IF columns[i] \in NumericLabels
    THEN [exc |-> "AttributeError", ret |-> FALSE]
    ELSE IF lower(Spelling(columns[i])) = SmilesText
    THEN [exc |-> "none", ret |-> TRUE]
    ELSE any_smiles(columns, i + 1)

\* next((col for col in df.columns if col.lower() == 'smiles'), None), from
\* column i on
RECURSIVE next_smiles(_, _)
next_smiles(columns, i) ==
    IF i > Len(columns) THEN [exc |-> "none", ret |-> None]
    ELSE IF columns[i] \in NumericLabels
    THEN [exc |-> "AttributeError", ret |-> None]
    ELSE IF lower(Spelling(columns[i])) = SmilesText
    THEN [exc |-> "none", ret |-> columns[i]]
    ELSE next_smiles(columns, i + 1)

\* processor.get_sheet_info(): shape, columns, has_smiles and smiles_column
\* of every sheet, in sheet order
get_sheet_info(sd) ==
    LET has(i) == any_smiles(sd[i].df.columns, 1)
        col(i) == next_smiles(sd[i].df.columns, 1)
    IN  [exc |-> IF \E i \in DOMAIN sd : has(i).exc # "none" \/ col(i).exc # "none"
                 THEN "AttributeError" ELSE "none",
         ret |-> [i \in DOMAIN sd |->
                    [name |-> sd[i].name,
                     shape |-> <<Len(sd[i].df.rows), Len(sd[i].df.columns)>>,
                     columns |-> sd[i].df.columns,
                     has_smiles |-> has(i).ret,
                     smiles_column |-> col(i).ret]]]

\* smiles_columns.get(sheet_name)
ColumnOf(cols, name) ==
    IF \E i \in DOMAIN cols : cols[i].name = name
    THEN cols[CHOOSE i \in DOMAIN cols : cols[i].name = name].col
    ELSE None

\* the loop body of process_formulas storing the sheet it was handed
formula_sheet_keeps_input(df, smiles_col, psr, fails) == df

\* the body of the loop of process_formulas for one sheet: the table stored
\* in updated_sheets; fails tells whether add_formula_column raises something
\* unforeseen on this sheet
formula_sheet(df, smiles_col, psr, fails) ==
    IF smiles_col # None
    THEN LET r == add_formula_column(<<df>>, 1, smiles_col, FORMULA, psr)
             stats == get_formula_statistics(
                          IF r.exc = "none" THEN r.heap[r.ret] ELSE df, FORMULA)
         IN  IF fails \/ r.exc # "none" \/ stats.exc # "none"
             THEN df
             ELSE r.heap[r.ret]
    ELSE df

\* the loop body of process_metabolite_mapping mapping the reference sheet too
mapping_sheet_maps_reference(name, df, m, reference_sheet, fails) ==
    IF HasColumn(df, FORMULA) /\ ~fails
    THEN apply_metabolite_mapping(<<df>>, 1, m, FORMULA, METABOLITE_NAME).heap[2]
    ELSE df

\* the loop body of process_metabolite_mapping storing what the failed call
\* left behind
mapping_sheet_keeps_partial(name, df, m, reference_sheet, fails) ==
    IF name = reference_sheet THEN df
    ELSE IF HasColumn(df, FORMULA)
    THEN apply_metabolite_mapping(<<df>>, 1, m, FORMULA, METABOLITE_NAME).heap[2]
    ELSE df

\* the body of the loop of process_metabolite_mapping for one sheet: the
\* table stored in updated_sheets; fails tells whether applying the map (or
\* its statistics) raises on this sheet
mapping_sheet(name, df, m, reference_sheet, fails) ==
    IF name = reference_sheet THEN df
    ELSE IF HasColumn(df, FORMULA)
    THEN LET r == apply_metabolite_mapping(<<df>>, 1, m, FORMULA, METABOLITE_NAME)
             stats == get_mapping_statistics(
                          IF r.exc = "none" THEN r.heap[r.ret] ELSE df,
                          METABOLITE_NAME)
         IN  IF fails \/ r.exc # "none" \/ stats.exc # "none" THEN df
             ELSE r.heap[r.ret]
    ELSE df

\* the dict handed to apply_metabolite_mapping remembering the formulas it
\* does not hold
mapping_after_apply_caches_misses(df, m, formula_column) ==
    LET misses == {str(df.rows[i][formula_column]) : i \in DOMAIN df.rows}
                  \ DOMAIN m
    IN  [k \in DOMAIN m \cup misses |-> IF k \in DOMAIN m THEN m[k] ELSE <<>>]

\* the dict handed to apply_metabolite_mapping, after the call:
\* Series.map(mapping) and len(mapping) read it and nothing writes it
mapping_after_apply(df, m, formula_column) == m

\* the sheets of the workbooks run on
RefGood ==
    Table(<<REFERENCE_FORMULA_COL, REFERENCE_METABOLITE_COL>>,
          <<(REFERENCE_FORMULA_COL :> Text(<<"C">>))
            @@ (REFERENCE_METABOLITE_COL :> Text(<<"x">>))>>)
RefNoPair ==
    Table(<<REFERENCE_FORMULA_COL, REFERENCE_METABOLITE_COL>>,
          <<(REFERENCE_FORMULA_COL :> Text(<<"C">>))
            @@ (REFERENCE_METABOLITE_COL :> NaN)>>)
RefNoName ==
    Table(<<REFERENCE_FORMULA_COL>>, <<(REFERENCE_FORMULA_COL :> Text(<<"C">>))>>)
Data ==
    Table(<<"id", "smiles">>,
          <<("id" :> Text(<<"1">>)) @@ ("smiles" :> Text(<<"c">>))>>)
DataNumeric ==
    Table(<<"2024", "smiles">>,
          <<("2024" :> Text(<<"1">>)) @@ ("smiles" :> Text(<<"c">>))>>)
DataFormula ==
    Table(<<FORMULA, "id">>,
          <<(FORMULA :> Text(<<"C">>)) @@ ("id" :> Text(<<"1">>))>>)
DataNoRows == Table(<<"id">>, <<>>)
RefWithSmiles ==
    Table(<<REFERENCE_FORMULA_COL, REFERENCE_METABOLITE_COL, "smiles">>,
          <<(REFERENCE_FORMULA_COL :> Text(<<"C">>))
            @@ (REFERENCE_METABOLITE_COL :> Text(<<"x">>))
            @@ ("smiles" :> Text(<<"c">>))>>)

SheetTables ==
    {RefGood, RefNoPair, RefNoName, RefWithSmiles, Data, DataNumeric,
     DataFormula, DataNoRows}

SheetNames == {REFERENCE_SHEET, "Sheet2", "Data"}

\* the parser either knows the descriptor "c" or finds it invalid
MainParsers ==
    {[t \in ParserInputs |-> [kind |-> "mol", formula |-> <<"C">>]],
     [t \in ParserInputs |-> [kind |-> "none", formula |-> <<>>]]}

NoFile == [exists |-> FALSE, sheets |-> <<>>]

InitMain ==
    /\ pc = "main_start"
    /\ \/ file = NoFile
       \/ \E n \in 0..MaxSheets :
             \E names \in [1..n -> SheetNames], tabs \in [1..n -> SheetTables] :
                /\ \A i, j \in 1..n : names[i] = names[j] => i = j
                /\ file = [exists |-> TRUE,
                           sheets |-> [i \in 1..n |->
                                         [name |-> names[i], df |-> tabs[i]]]]
    /\ faulty \in SUBSET Names(file.sheets)
    /\ parser \in MainParsers
    /\ sheets_data = <<>>
    /\ smiles_columns = <<>>
    /\ updated_sheets = <<>>
    /\ sheets_with_formulas = <<>>
    /\ final_sheets = <<>>
    /\ sheet_idx = 0
    /\ status = NotReturned
    /\ outcome = "none"
    /\ log = <<>>
    /\ output = <<>>
    /\ backup = "none"
    /\ map_failed = {}
    /\ writer = <<>>
    /\ MergeIdle
    /\ mapping = EmptyMap
    /\ exc = "none"
    /\ reference_df = NoTable
    /\ idx = 0
    /\ formula_to_metabolite = EmptyMap
    /\ heap = <<>>
    /\ target_df = 0
    /\ before = NoTable
    /\ smiles_column = None
    /\ result_df = 0
    /\ result2_df = 0
    /\ smiles = NaN
    /\ formula = <<>>
    /\ parser_calls = <<>>
    /\ ret = NoTable

\* the variables a run of main leaves alone
unit_vars == <<reference_df, idx, formula_to_metabolite, heap, target_df, before,
               parser, smiles_column, result_df, result2_df, smiles, formula,
               parser_calls, ret, merge_vars>>

\* what only the backup, a failing application of the map and the save change
side_vars == <<backup, map_failed, writer>>

\* return s, by the return statement named o
Return(s, o) ==
    /\ pc' = "exited"
    /\ status' = s
    /\ outcome' = o

\* is_valid, issues = validate_excel_file(args.input_file)
ValidateInput ==
    /\ pc = "main_start"
    /\ IF validate_excel_file(file)
       THEN pc' = "input_valid" /\ UNCHANGED <<status, outcome>>
       ELSE Return(ValidationStatus, "validation")
    /\ UNCHANGED <<file, faulty, sheets_data, smiles_columns, updated_sheets,
                   sheets_with_formulas, final_sheets, sheet_idx, log, output,
                   mapping, exc, unit_vars, side_vars>>

\* the backup whose failure reaches the handler of main
BackupFailureAborts ==
    /\ pc = "input_valid"
    /\ \E copied \in BOOLEAN :
          IF copied
          THEN /\ backup' = "created"
               /\ pc' = "backed_up"
               /\ UNCHANGED <<status, outcome, exc>>
          ELSE /\ backup' = "failed"
               /\ exc' = "OSError"
               /\ Return(UnexpectedStatus, "unexpected")
    /\ UNCHANGED <<file, faulty, sheets_data, smiles_columns, updated_sheets,
                   sheets_with_formulas, final_sheets, sheet_idx, log, output,
                   mapping, unit_vars, map_failed, writer>>

\* processor = ExcelProcessor(args.input_file); unless --no-backup was given
\* processor.backup_original_file() is tried: the copy is made, or it fails,
\* the exception is caught, a warning logged and the run goes on
Backup ==
    /\ pc = "input_valid"
    /\ backup' \in {"skipped", "created", "failed"}
    /\ pc' = "backed_up"
    /\ UNCHANGED <<file, faulty, sheets_data, smiles_columns, updated_sheets,
                   sheets_with_formulas, final_sheets, sheet_idx, status,
                   outcome, log, output, mapping, exc, unit_vars, map_failed,
                   writer>>

\* sheets_data = processor.load_excel_file()
Load ==
    /\ pc = "backed_up"
    /\ sheets_data' = file.sheets
    /\ log' = Append(log, "Loaded")
    /\ pc' = "loaded"
    /\ UNCHANGED <<file, faulty, smiles_columns, updated_sheets,
                   sheets_with_formulas, final_sheets, sheet_idx, status,
                   outcome, output, mapping, exc, unit_vars, side_vars>>

\* is_valid, error_msg = processor.validate_reference_sheet(args.reference)
ValidateReference ==
    /\ pc = "loaded"
    /\ IF validate_reference_sheet(sheets_data, REFERENCE_SHEET).is_valid
       THEN pc' = "reference_valid" /\ UNCHANGED <<status, outcome>>
       ELSE Return(ValidationStatus, "validation")
    /\ UNCHANGED <<file, faulty, sheets_data, smiles_columns, updated_sheets,
                   sheets_with_formulas, final_sheets, sheet_idx, log, output,
                   mapping, exc, unit_vars, side_vars>>

\* process_formulas: updated_sheets = {}; smiles_columns =
\* processor.find_smiles_columns().  The call stands in no try of
\* process_formulas: its exception reaches the handler of main.
FindSmilesColumns ==
    /\ pc = "reference_valid"
    /\ log' = Append(log, "find")
    /\ LET r == find_smiles_columns(sheets_data)
       IN  IF r.exc = "none"
           THEN /\ smiles_columns' = r.ret
                /\ updated_sheets' = <<>>
                /\ sheet_idx' = 0
                /\ pc' = "formulas_loop"
                /\ UNCHANGED <<exc, status, outcome>>
           ELSE /\ exc' = r.exc
                /\ Return(UnexpectedStatus, "unexpected")
                /\ UNCHANGED <<smiles_columns, updated_sheets, sheet_idx>>
    /\ UNCHANGED <<file, faulty, sheets_data, sheets_with_formulas, final_sheets,
                   output, mapping, unit_vars, side_vars>>

\* process_formulas: one turn of the loop over sheets_data.items()
FormulaSheet ==
    /\ pc = "formulas_loop"
    /\ sheet_idx < Len(sheets_data)
    /\ LET sheet == sheets_data[sheet_idx + 1]
       IN  updated_sheets' =
              Put(updated_sheets, sheet.name,
                  formula_sheet(sheet.df, ColumnOf(smiles_columns, sheet.name),
                                parser, sheet.name \in faulty))
    /\ sheet_idx' = sheet_idx + 1
    /\ log' = Append(log, "derive")
    /\ UNCHANGED <<pc, file, faulty, sheets_data, smiles_columns,
                   sheets_with_formulas, final_sheets, status, outcome, output,
                   mapping, exc, unit_vars, side_vars>>

\* sheets_with_formulas = process_formulas(processor, sheets_data)
FormulasReturn ==
    /\ pc = "formulas_loop"
    /\ sheet_idx = Len(sheets_data)
    /\ sheets_with_formulas' = updated_sheets
    /\ log' = Append(log, "FormulasDerived")
    /\ pc' = "formulas_derived"
    /\ UNCHANGED <<file, faulty, sheets_data, smiles_columns, updated_sheets,
                   final_sheets, sheet_idx, status, outcome, output, mapping,
                   exc, unit_vars, side_vars>>

\* process_metabolite_mapping up to its loop: the reference sheet is looked
\* up and the Formula Map built; when that fails the sheets are returned as
\* they came
BuildMap ==
    /\ pc = "formulas_derived"
    /\ LET sd == sheets_with_formulas
           found == /\ REFERENCE_SHEET \in Names(sd)
                    /\ HasColumn(Get(sd, REFERENCE_SHEET), REFERENCE_FORMULA_COL)
                    /\ HasColumn(Get(sd, REFERENCE_SHEET), REFERENCE_METABOLITE_COL)
           r == IF found
                THEN create_formula_metabolite_mapping(
                         Get(sd, REFERENCE_SHEET), REFERENCE_FORMULA_COL,
                         REFERENCE_METABOLITE_COL)
                ELSE [exc |-> "none", ret |-> EmptyMap]
       IN  IF found /\ r.exc = "none"
           THEN /\ mapping' = r.ret
                /\ updated_sheets' = <<>>
                /\ sheet_idx' = 0
                /\ log' = Append(log, "build_map")
                /\ pc' = "mapping_loop"
                /\ UNCHANGED final_sheets
           ELSE /\ final_sheets' = sd
                /\ log' = Append(log, "MetabolitesMapped")
                /\ pc' = "metabolites_mapped"
                /\ UNCHANGED <<mapping, updated_sheets, sheet_idx>>
    /\ UNCHANGED <<file, faulty, sheets_data, smiles_columns,
                   sheets_with_formulas, status, outcome, output, exc, unit_vars, side_vars>>

\* process_metabolite_mapping: one turn of the loop that leaves the reference
\* sheet out of the result
MapSheetSkipsReference ==
    /\ pc = "mapping_loop"
    /\ sheet_idx < Len(sheets_with_formulas)
    /\ LET sheet == sheets_with_formulas[sheet_idx + 1]
       IN  updated_sheets' =
              IF sheet.name = REFERENCE_SHEET THEN updated_sheets
              ELSE Put(updated_sheets, sheet.name,
                       mapping_sheet(sheet.name, sheet.df, mapping,
                                     REFERENCE_SHEET, FALSE))
    /\ sheet_idx' = sheet_idx + 1
    /\ log' = Append(log, "map")
    /\ UNCHANGED <<pc, file, faulty, sheets_data, smiles_columns,
                   sheets_with_formulas, final_sheets, status, outcome, output,
                   mapping, exc, unit_vars, side_vars>>

\* process_metabolite_mapping: one turn of the loop over sheets_data.items();
\* on a sheet the map is applied to, the call may raise
MapSheet ==
    /\ pc = "mapping_loop"
    /\ sheet_idx < Len(sheets_with_formulas)
    /\ LET sheet == sheets_with_formulas[sheet_idx + 1]
           applied == sheet.name # REFERENCE_SHEET /\ HasColumn(sheet.df, FORMULA)
       IN  \E fails \in BOOLEAN :
              /\ fails => applied
              /\ updated_sheets' =
                    Put(updated_sheets, sheet.name,
                        mapping_sheet(sheet.name, sheet.df, mapping,
                                      REFERENCE_SHEET, fails))
              /\ map_failed' = IF fails THEN map_failed \cup {sheet.name}
                               ELSE map_failed
              /\ mapping' = IF applied
                            THEN mapping_after_apply(sheet.df, mapping, FORMULA)
                            ELSE mapping
    /\ sheet_idx' = sheet_idx + 1
    /\ log' = Append(log, "map")
    /\ UNCHANGED <<pc, file, faulty, sheets_data, smiles_columns,
                   sheets_with_formulas, final_sheets, status, outcome, output,
                   exc, unit_vars, backup, writer>>

\* process_metabolite_mapping returning from inside its loop, after one turn
MappingReturnInsideLoop ==
    /\ pc = "mapping_loop"
    /\ sheet_idx >= 1 \/ sheet_idx = Len(sheets_with_formulas)
    /\ final_sheets' = updated_sheets
    /\ log' = Append(log, "MetabolitesMapped")
    /\ pc' = "metabolites_mapped"
    /\ UNCHANGED <<file, faulty, sheets_data, smiles_columns, updated_sheets,
                   sheets_with_formulas, sheet_idx, status, outcome, output,
                   mapping, exc, unit_vars, side_vars>>

\* final_sheets = process_metabolite_mapping(sheets_with_formulas, args.reference)
MappingReturn ==
    /\ pc = "mapping_loop"
    /\ sheet_idx = Len(sheets_with_formulas)
    /\ final_sheets' = updated_sheets
    /\ log' = Append(log, "MetabolitesMapped")
    /\ pc' = "metabolites_mapped"
    /\ UNCHANGED <<file, faulty, sheets_data, smiles_columns, updated_sheets,
                   sheets_with_formulas, sheet_idx, status, outcome, output,
                   mapping, exc, unit_vars, side_vars>>

\* success = processor.save_to_excel(args.output_file, final_sheets), up to
\* the opening of the ExcelWriter: nothing to save, or an output path that
\* cannot be made, gives False
SaveToExcel ==
    /\ pc = "metabolites_mapped"
    /\ log' = Append(log, "save")
    /\ \E opened \in BOOLEAN :
          IF final_sheets # <<>> /\ opened
          THEN /\ writer' = <<>>
               /\ pc' = "saving"
               /\ UNCHANGED <<status, outcome>>
          ELSE /\ Return(SaveFailedStatus, "save_failed")
               /\ UNCHANGED writer
    /\ UNCHANGED <<file, faulty, sheets_data, smiles_columns, updated_sheets,
                   sheets_with_formulas, final_sheets, sheet_idx, output,
                   mapping, exc, unit_vars, backup, map_failed>>

\* save_to_excel: df.to_excel(writer, sheet_name=sheet_name) for the next
\* sheet.  When it raises, the with statement closes the writer, which saves
\* the sheets handed to it so far, and save_to_excel returns False.
WriteSheet ==
    /\ pc = "saving"
    /\ Len(writer) < Len(final_sheets)
    /\ \E written \in BOOLEAN :
          IF written
          THEN /\ writer' = Append(writer, final_sheets[Len(writer) + 1])
               /\ UNCHANGED <<pc, status, outcome, output>>
          ELSE /\ output' = writer
               /\ Return(SaveFailedStatus, "save_failed")
               /\ UNCHANGED writer
    /\ UNCHANGED <<file, faulty, sheets_data, smiles_columns, updated_sheets,
                   sheets_with_formulas, final_sheets, sheet_idx, log, mapping,
                   exc, unit_vars, backup, map_failed>>

\* save_to_excel: the with statement ends, the writer is closed and the
\* workbook saved; return True
CloseWriter ==
    /\ pc = "saving"
    /\ Len(writer) = Len(final_sheets)
    /\ output' = writer
    /\ log' = Append(log, "Saved")
    /\ pc' = "saved"
    /\ UNCHANGED <<file, faulty, sheets_data, smiles_columns, updated_sheets,
                   sheets_with_formulas, final_sheets, sheet_idx, status,
                   outcome, mapping, exc, unit_vars, backup, map_failed, writer>>

\* generate_summary_report(processor, final_sheets); return 0
Finish ==
    /\ pc = "saved"
    /\ Return(SuccessStatus, "success")
    /\ UNCHANGED <<file, faulty, sheets_data, smiles_columns, updated_sheets,
                   sheets_with_formulas, final_sheets, sheet_idx, log, output,
                   mapping, exc, unit_vars, side_vars>>

NextMain ==
    \/ ValidateInput
    \/ Backup
    \/ Load
    \/ ValidateReference
    \/ FindSmilesColumns
    \/ FormulaSheet
    \/ FormulasReturn
    \/ BuildMap
    \/ MapSheet
    \/ MappingReturn
    \/ SaveToExcel
    \/ WriteSheet
    \/ CloseWriter
    \/ Finish

SpecMain == InitMain /\ [][NextMain]_vars

-----------------------------------------------------------------------------
(* Claims about the run *)

\* the steps of the run so far
Logged(e) == e \in Range(log)

\* the workbook is there and its reference sheet is absent or lacks a
\* required column
ReferenceDeficient ==
    /\ file.exists
    /\ \/ REFERENCE_SHEET \notin Names(file.sheets)
       \/ ~HasColumn(Get(file.sheets, REFERENCE_SHEET), REFERENCE_FORMULA_COL)
       \/ ~HasColumn(Get(file.sheets, REFERENCE_SHEET), REFERENCE_METABOLITE_COL)

\* C16: when the reference sheet is absent from the workbook or lacks either
\* required column the whole run fails: main returns a failure status, no
\* sheet is given a name column (no sheet is mapped, every loaded sheet is as
\* it was read), save_to_excel is never called and no output file is written.
C16_DeficientReferenceFailsRun ==
    ReferenceDeficient =>
        /\ pc = "exited" => status # SuccessStatus /\ status # NotReturned
        /\ pc \notin {"reference_valid", "formulas_loop", "formulas_derived",
                      "mapping_loop", "metabolites_mapped", "saved"}
        /\ ~Logged("build_map") /\ ~Logged("map") /\ ~Logged("save")
        /\ sheets_data \in {<<>>, file.sheets}
        /\ updated_sheets = <<>>
        /\ sheets_with_formulas = <<>>
        /\ final_sheets = <<>>
        /\ output = <<>>

\* a workbook that passes the input validation, whose reference sheet has
\* rows but no name column, beside a sheet of descriptors: the run was
\* loaded and ended at the reference validation
C16_Witness ==
    /\ pc = "exited"
    /\ ReferenceDeficient
    /\ REFERENCE_SHEET \in Names(file.sheets)
    /\ Len(file.sheets) = 2
    /\ \E i \in DOMAIN file.sheets : file.sheets[i].df = Data
    /\ log = <<"Loaded">>
    /\ status = ValidationStatus
    /\ outcome = "validation"
    /\ output = <<>>

\* C17: a run stops before any output is written only because of a
\* validation failure or an I/O failure (the input validation and the
\* reference-sheet validation both taken as such): a run that ended without
\* attempting the save ended at one of the two validations.
C17_StopsOnlyOnValidationOrIO ==
    pc = "exited" /\ ~Logged("save") => outcome = "validation"

\* C18 as stated: success, input-validation failure and unexpected failure
\* each produce a status of their own: the status of a run that ended one of
\* these ways is not the status main returns for either of the other two.
C18_ThreeStatuses ==
    pc = "exited" =>
        /\ outcome = "success" => status \notin {ValidationStatus, UnexpectedStatus}
        /\ outcome = "validation" => status \notin {SuccessStatus, UnexpectedStatus}
        /\ outcome = "unexpected" => status \notin {SuccessStatus, ValidationStatus}

\* C18 amended: the status main returns tells two outcomes apart: 0 for a
\* run that saved its output, 1 for every failure (validation failure, save
\* failure, unexpected failure alike).
C18_TwoStatuses ==
    pc = "exited" =>
        /\ status \in {0, 1}
        /\ status = 0 <=> outcome = "success"
        /\ outcome = "success" <=> Logged("Saved")
        /\ outcome \in {"validation", "save_failed", "unexpected"} => status = 1

\* a run that ended on the unexpected exception of a numeric column label
C18_Witness ==
    /\ pc = "exited"
    /\ outcome = "unexpected"
    /\ exc = "AttributeError"
    /\ status = 1

\* the place of a step in a run
Rank(e) ==
    CASE e = "Loaded"            -> 1
      [] e = "find"              -> 2
      [] e = "derive"            -> 3
      [] e = "FormulasDerived"   -> 4
      [] e = "build_map"         -> 5
      [] e = "map"               -> 6
      [] e = "MetabolitesMapped" -> 7
      [] e = "save"              -> 8
      [] e = "Saved"             -> 9

\* the steps of l are in the order of the run, the turns of a loop apart none
\* of them taken twice; every sheet was derived before the Formula Map was
\* built and every sheet was mapped before save was invoked
InOrder(l) ==
    /\ \A i, j \in DOMAIN l :
          i < j => \/ Rank(l[i]) < Rank(l[j])
                   \/ l[i] = l[j] /\ l[i] \in {"derive", "map"}
    /\ \A j \in DOMAIN l :
          /\ l[j] \in {"FormulasDerived", "build_map"} =>
                Cardinality({i \in 1..j : l[i] = "derive"}) = Len(sheets_data)
          /\ l[j] \in {"MetabolitesMapped", "save"} =>
                /\ \E i \in 1..j : l[i] = "build_map"
                /\ Cardinality({i \in 1..j : l[i] = "map"}) = Len(sheets_data)
          /\ l[j] = "Saved" => j > 1 /\ l[j - 1] = "save"

\* C19: a run goes through Loaded, FormulasDerived, MetabolitesMapped, Saved
\* in that order: every sheet is derived before the Formula Map is built,
\* every sheet is mapped before save is invoked, save is invoked at most
\* once, and after Saved or after any exit no step of a stage is taken again.
C19_StagesInOrder ==
    [][/\ InOrder(log')
       /\ (pc = "exited" \/ Logged("Saved")) => log' = log
       /\ pc = "exited" => pc' = "exited"]_vars

\* a run over two sheets that went through the four states and returned
C19_Witness ==
    /\ pc = "exited"
    /\ Len(sheets_data) = 2
    /\ log = <<"Loaded", "find", "derive", "derive", "FormulasDerived",
               "build_map", "map", "map", "MetabolitesMapped", "save", "Saved">>

\* C20: in process_formulas a failure on one sheet, in locating its
\* descriptor column or in deriving its formulas, never aborts the batch:
\* once entered, the stage returns a table for every sheet, the sheets that
\* failed as they were.
C20_SheetFailureNeverAbortsBatch ==
    /\ Logged("find") /\ pc = "exited" => Logged("FormulasDerived")
    /\ Logged("FormulasDerived") =>
          /\ Len(sheets_with_formulas) = Len(sheets_data)
          /\ \A i \in DOMAIN sheets_data :
                /\ sheets_with_formulas[i].name = sheets_data[i].name
                /\ sheets_data[i].name \in faulty =>
                      sheets_with_formulas[i].df = sheets_data[i].df

-----------------------------------------------------------------------------
(* Claims about the stages of the run *)

\* the positions of the columns of df that are named "smiles" in some case
DescriptorColumns(df) == {j \in DOMAIN df.columns : SmilesNamed(df.columns[j])}

\* C21: after process_formulas, every sheet in which a descriptor column was
\* located and the derivation went through has a Formula column holding one
\* derivation outcome per row, its other cells as they were; every sheet
\* without a descriptor column is the input table, unmodified.
C21_FormulasDerivedPerSheet ==
    Logged("FormulasDerived") =>
        \A i \in DOMAIN sheets_data :
            LET in == sheets_data[i].df
                out == sheets_with_formulas[i].df
            IN  IF DescriptorColumns(in) = {} THEN out = in
                ELSE sheets_data[i].name \notin faulty =>
                       LET j == CHOOSE j \in DescriptorColumns(in) :
                                   \A k \in DescriptorColumns(in) : j <= k
                       IN  /\ HasColumn(out, FORMULA)
                           /\ Len(out.rows) = Len(in.rows)
                           /\ \A r \in DOMAIN in.rows :
                                 /\ ~isna(out.rows[r][FORMULA])
                                 /\ out.rows[r][FORMULA] =
                                       Text(smiles_to_formula(
                                                in.rows[r][in.columns[j]],
                                                parser).ret)
                                 /\ \A c \in Range(in.columns) \ {FORMULA} :
                                       out.rows[r][c] = in.rows[r][c]

\* two sheets: the reference sheet, without a descriptor column, came back as
\* it was; the sheet of descriptors got the formula C
C21_Witness ==
    /\ pc = "formulas_derived"
    /\ Len(sheets_data) = 2
    /\ faulty = {}
    /\ \E i, j \in DOMAIN sheets_data :
          /\ sheets_data[i].df = RefGood
          /\ sheets_with_formulas[i].df = RefGood
          /\ sheets_data[j].df = Data
          /\ sheets_with_formulas[j].df.columns = <<"id", "smiles", FORMULA>>
          /\ sheets_with_formulas[j].df.rows[1][FORMULA] = Text(<<"C">>)

\* the names of a dict of sheets, in order
NameSeq(d) == [i \in DOMAIN d |-> d[i].name]

\* the Formula Map of the reference sheet the mapping stage was handed
ReferenceMap ==
    create_formula_metabolite_mapping(
        Get(sheets_with_formulas, REFERENCE_SHEET), REFERENCE_FORMULA_COL,
        REFERENCE_METABOLITE_COL).ret

\* out is the table in with the name column looked up in the map m from its
\* Formula column, every other cell as it was
MappedFrom(in, out, m) ==
    /\ HasColumn(out, METABOLITE_NAME)
    /\ Range(out.columns) = Range(in.columns) \cup {METABOLITE_NAME}
    /\ Len(out.rows) = Len(in.rows)
    /\ \A r \in DOMAIN in.rows :
          /\ out.rows[r][METABOLITE_NAME] =
                (IF ~isna(in.rows[r][FORMULA]) /\ str(in.rows[r][FORMULA]) \in DOMAIN m
                 THEN Text(m[str(in.rows[r][FORMULA])])
                 ELSE NaN)
          /\ \A c \in Range(in.columns) \ {METABOLITE_NAME} :
                out.rows[r][c] = in.rows[r][c]

\* C22: in process_metabolite_mapping with a valid reference sheet the map is
\* applied to every sheet that is not the reference sheet and has the Formula
\* column, and to no other: the reference sheet and every sheet without a
\* Formula column come back exactly as they went in.
C22_MapAppliedToFormulaSheetsOnly ==
    Logged("MetabolitesMapped") =>
        /\ Len(final_sheets) = Len(sheets_with_formulas)
        /\ \A i \in DOMAIN sheets_with_formulas :
              LET name == sheets_with_formulas[i].name
                  in == sheets_with_formulas[i].df
                  out == final_sheets[i].df
              IN  IF name = REFERENCE_SHEET \/ ~HasColumn(in, FORMULA)
                  THEN out = in
                  ELSE name \notin map_failed => MappedFrom(in, out, ReferenceMap)

\* the reference sheet had a descriptor column, so it got a Formula column,
\* and still came back from the mapping as it went in; the other sheet was
\* given the name x
C22_Witness ==
    /\ pc = "metabolites_mapped"
    /\ Len(final_sheets) = 2
    /\ \E i, j \in DOMAIN final_sheets :
          /\ final_sheets[i].name = REFERENCE_SHEET
          /\ HasColumn(final_sheets[i].df, FORMULA)
          /\ final_sheets[i].df = sheets_with_formulas[i].df
          /\ final_sheets[j].name # REFERENCE_SHEET
          /\ HasColumn(final_sheets[j].df, METABOLITE_NAME)
          /\ final_sheets[j].df.rows[1][METABOLITE_NAME] = Text(<<"x">>)

\* C23: an error raised while the map is applied to one sheet is caught:
\* that sheet comes back as it entered the stage, with its Formula column and
\* without a name column of this run, and the loop goes on over every
\* remaining sheet.
C23_MappingErrorIsCaught ==
    /\ pc = "mapping_loop" =>
          /\ Len(updated_sheets) = sheet_idx
          /\ map_failed \subseteq Names(updated_sheets)
    /\ Logged("MetabolitesMapped") =>
          /\ Cardinality({k \in DOMAIN log : log[k] = "map"})
                = Len(sheets_with_formulas)
          /\ \A i \in DOMAIN sheets_with_formulas :
                sheets_with_formulas[i].name \in map_failed =>
                   /\ final_sheets[i] = sheets_with_formulas[i]
                   /\ HasColumn(final_sheets[i].df, FORMULA)
                   /\ HasColumn(final_sheets[i].df, METABOLITE_NAME) =>
                         HasColumn(sheets_data[i].df, METABOLITE_NAME)

\* the sheet of descriptors came first, got its formula, failed in the
\* mapping and was passed through; the loop went on to the sheet after it and
\* the run saved both
C23_Witness ==
    /\ pc = "exited"
    /\ status = SuccessStatus
    /\ Len(final_sheets) = 2
    /\ final_sheets[1].name \in map_failed
    /\ final_sheets[1].df.columns = <<"id", "smiles", FORMULA>>
    /\ final_sheets[2].name = REFERENCE_SHEET
    /\ log = <<"Loaded", "find", "derive", "derive", "FormulasDerived",
               "build_map", "map", "map", "MetabolitesMapped", "save", "Saved">>

\* C24: in a run the Formula Map is built once, from the reference sheet,
\* before any sheet is mapped, and never changes afterwards: applying it
\* leaves every entry as it was, so every sheet is joined against the map of
\* the reference sheet, wherever the sheet stands in the workbook.
C24_MapBuiltOnceThenReadOnly ==
    [][/\ mapping' # mapping =>
             /\ pc = "formulas_derived" /\ pc' = "mapping_loop"
             /\ ~Logged("build_map") /\ ~Logged("map")
       /\ "build_map" \in Range(log') =>
             /\ Cardinality({k \in DOMAIN log' : log'[k] = "build_map"}) = 1
             /\ mapping' = ReferenceMap'
       /\ pc' = "mapping_loop" =>
             \A i \in DOMAIN updated_sheets' :
                LET in == sheets_with_formulas'[i].df
                    out == updated_sheets'[i].df
                IN  out # in => MappedFrom(in, out, ReferenceMap')]_vars

\* the sheet to map stands before the reference sheet and holds a formula
\* the map does not know; the map is still the one built from the reference
C24_Witness ==
    /\ pc = "metabolites_mapped"
    /\ Len(final_sheets) = 2
    /\ final_sheets[2].name = REFERENCE_SHEET
    /\ HasColumn(final_sheets[1].df, FORMULA)
    /\ HasColumn(final_sheets[1].df, METABOLITE_NAME)
    /\ final_sheets[1].df.rows[1][FORMULA] = Text(InvalidText)
    /\ isna(final_sheets[1].df.rows[1][METABOLITE_NAME])
    /\ mapping = (<<"C">> :> <<"x">>)

\* C25: the backup is best-effort: whether the copy is made, fails or is not
\* asked for, the backup step changes nothing but the position of the run,
\* which goes on to load, derive, map and save; how the backup went is never
\* looked at again, and a run whose backup failed exits only where a run
\* exits anyway: at the reference validation, at the lookup of the descriptor
\* columns, at the save, or with success.
C25_BackupIsBestEffort ==
    [][/\ pc = "input_valid" =>
             /\ pc' = "backed_up"
             /\ backup' \in {"skipped", "created", "failed"}
             /\ UNCHANGED <<file, faulty, sheets_data, smiles_columns,
                            updated_sheets, sheets_with_formulas, final_sheets,
                            sheet_idx, status, outcome, log, output, mapping,
                            exc, map_failed, writer>>
       /\ pc # "input_valid" => backup' = backup
       /\ pc' = "exited" /\ backup' = "failed" =>
             /\ Logged("Loaded")
             /\ \/ outcome' = "validation" /\ log' = <<"Loaded">>
                \/ outcome' = "unexpected" /\ exc' = "AttributeError"
                \/ outcome' = "save_failed" /\ "save" \in Range(log')
                \/ outcome' = "success" /\ "Saved" \in Range(log')
       /\ pc' = "exited" /\ "Saved" \in Range(log') =>
             status' = SuccessStatus /\ output' = final_sheets']_vars

\* the backup failed and the run loaded, derived, mapped, saved both sheets
\* and returned 0
C25_Witness ==
    /\ pc = "exited"
    /\ backup = "failed"
    /\ status = SuccessStatus
    /\ Len(output) = 2
    /\ output = final_sheets
    /\ \E i \in DOMAIN output : HasColumn(output[i].df, FORMULA)

-----------------------------------------------------------------------------
(* The run under a top-level interruption *)

InterruptedStatus == 1

\* KeyboardInterrupt at any point of main: the handler prints and returns 1.
\* Inside the with statement of save_to_excel the exception first leaves the
\* with block, which closes the ExcelWriter, and closing saves the sheets
\* handed to it so far; "except Exception" does not catch it.
Interrupt ==
    /\ pc # "exited"
    /\ output' = IF pc = "saving" THEN writer ELSE output
    /\ Return(InterruptedStatus, "interrupted")
    /\ UNCHANGED <<file, faulty, sheets_data, smiles_columns, updated_sheets,
                   sheets_with_formulas, final_sheets, sheet_idx, log, mapping,
                   exc, unit_vars, side_vars>>

NextInterrupted == NextMain \/ Interrupt

SpecInterrupted == InitMain /\ [][NextInterrupted]_vars

\* C26: an interruption at any point of a run aborts the batch without a
\* partial save: after an interrupted run either no output was written or
\* the complete table set was, never only some of the sheets.
C26_NoPartialSaveOnInterrupt ==
    pc = "exited" /\ outcome = "interrupted" =>
        output = <<>> \/ output = final_sheets

\* C27: both stages keep the sheet set: process_formulas and
\* process_metabolite_mapping return tables under the same sheet names, in
\* the same order, as the tables they were handed, also when single sheets
\* failed; the table set handed to save has one table per loaded sheet.
C27_StagesPreserveSheetSet ==
    /\ Logged("FormulasDerived") =>
          NameSeq(sheets_with_formulas) = NameSeq(sheets_data)
    /\ Logged("MetabolitesMapped") =>
          /\ NameSeq(final_sheets) = NameSeq(sheets_with_formulas)
          /\ NameSeq(final_sheets) = NameSeq(file.sheets)
    /\ Logged("save") =>
          /\ Len(final_sheets) = Len(file.sheets)
          /\ \A i \in DOMAIN writer : writer[i] = final_sheets[i]

\* the derivation failed on one of two sheets: two sheets came in and two,
\* under the same names, are about to be saved
C27_Witness ==
    /\ pc = "metabolites_mapped"
    /\ Len(file.sheets) = 2
    /\ faulty # {}
    /\ \E i \in DOMAIN file.sheets :
          /\ file.sheets[i].name \in faulty
          /\ file.sheets[i].df = Data
          /\ final_sheets[i] = file.sheets[i]
    /\ NameSeq(final_sheets) = NameSeq(file.sheets)

\* the reference sheet of the workbook exists, has both required columns and
\* at least one row in which both values are present
CompleteReference ==
    /\ REFERENCE_SHEET \in Names(file.sheets)
    /\ LET df == Get(file.sheets, REFERENCE_SHEET)
       IN  /\ HasColumn(df, REFERENCE_FORMULA_COL)
           /\ HasColumn(df, REFERENCE_METABOLITE_COL)
           /\ \E r \in DOMAIN df.rows :
                 /\ ~isna(df.rows[r][REFERENCE_FORMULA_COL])
                 /\ ~isna(df.rows[r][REFERENCE_METABOLITE_COL])

\* C30: validate_reference_sheet accepts the reference sheet exactly when it
\* exists, has both columns and has a row with both values present; when it
\* rejects, main returns a failure status before any formula is derived and
\* before save is called, also for a reference sheet without a complete pair,
\* from which the map alone would have been built, empty.
C30_ReferenceAcceptedIffCompletePair ==
    /\ pc \in {"reference_valid", "formulas_loop", "formulas_derived",
               "mapping_loop", "metabolites_mapped", "saving", "saved"}
          => CompleteReference
    /\ Logged("find") \/ Logged("derive") \/ Logged("save") => CompleteReference
    /\ pc = "exited" /\ log = <<"Loaded">> =>
          /\ ~CompleteReference
          /\ outcome = "validation"
          /\ status = ValidationStatus /\ status # SuccessStatus
          /\ sheets_with_formulas = <<>> /\ output = <<>>
          /\ LET sd == file.sheets
             IN  /\ REFERENCE_SHEET \in Names(sd)
                 /\ HasColumn(Get(sd, REFERENCE_SHEET), REFERENCE_FORMULA_COL)
                 /\ HasColumn(Get(sd, REFERENCE_SHEET), REFERENCE_METABOLITE_COL)
                 => create_formula_metabolite_mapping(
                        Get(sd, REFERENCE_SHEET), REFERENCE_FORMULA_COL,
                        REFERENCE_METABOLITE_COL)
                    = [exc |-> "none", ret |-> EmptyMap]

\* the reference sheet has both columns and a row, but no row with a name:
\* the run ended at the reference validation
C30_Witness ==
    /\ pc = "exited"
    /\ log = <<"Loaded">>
    /\ REFERENCE_SHEET \in Names(file.sheets)
    /\ Get(file.sheets, REFERENCE_SHEET) = RefNoPair
    /\ status = ValidationStatus

-----------------------------------------------------------------------------
(* The three lookups of the descriptor column: find_smiles_column
   (src/smiles_utils.py), ExcelProcessor.find_smiles_columns and
   ExcelProcessor.get_sheet_info (src/excel_processor.py), on the sheets of
   one processor.  In this specification log holds, call by call, the
   exception that left the call ("none": it returned). *)

\* the columns of a second sheet beside the one searched
OtherSheetLayouts == {<<"id">>, <<"SMILES", "smiles">>, <<"2024", "smiles">>}

InitLookups ==
    /\ pc = "lookups_start"
    /\ \E n \in 0..MaxCols : \E cols \in [1..n -> LocateLabels] :
          /\ \A i, j \in 1..n : cols[i] = cols[j] => i = j
          /\ \/ sheets_data = <<[name |-> "Sheet1", df |-> Table(cols, <<>>)]>>
             \/ \E other \in OtherSheetLayouts :
                   sheets_data \in
                      {<<[name |-> "Sheet1", df |-> Table(cols, <<>>)],
                         [name |-> "Sheet2", df |-> Table(other, <<>>)]>>,
                       <<[name |-> "Sheet1", df |-> Table(other, <<>>)],
                         [name |-> "Sheet2", df |-> Table(cols, <<>>)]>>}
    /\ file = [exists |-> TRUE, sheets |-> sheets_data]
    /\ faulty = {}
    /\ smiles_columns = <<>>
    /\ updated_sheets = <<>>
    /\ sheets_with_formulas = <<>>
    /\ final_sheets = <<>>
    /\ sheet_idx = 0
    /\ status = NotReturned
    /\ outcome = "none"
    /\ log = <<>>
    /\ output = <<>>
    /\ backup = "none"
    /\ map_failed = {}
    /\ writer = <<>>
    /\ MergeIdle
    /\ mapping = EmptyMap
    /\ exc = "none"
    /\ reference_df = NoTable
    /\ idx = 0
    /\ formula_to_metabolite = EmptyMap
    /\ heap = <<>>
    /\ target_df = 0
    /\ before = NoTable
    /\ parser = NoParser
    /\ smiles_column = None
    /\ result_df = 0
    /\ result2_df = 0
    /\ smiles = NaN
    /\ formula = <<>>
    /\ parser_calls = <<>>
    /\ ret = <<>>

\* smiles_column = find_smiles_column(processor.sheets_data[name]) for one of
\* the sheets
LookupSheet ==
    /\ pc = "lookups_start"
    /\ \E i \in DOMAIN sheets_data :
          LET r == find_smiles_column(sheets_data[i].df)
          IN  /\ sheet_idx' = i
              /\ smiles_column' = r.ret
              /\ exc' = r.exc
              /\ log' = Append(log, r.exc)
    /\ pc' = "sheet_looked_up"
    /\ UNCHANGED <<file, faulty, sheets_data, smiles_columns, updated_sheets,
                   sheets_with_formulas, final_sheets, status, outcome, output,
                   mapping, reference_df, idx, formula_to_metabolite, heap,
                   target_df, before, parser, result_df, result2_df, smiles,
                   formula, parser_calls, ret, side_vars, merge_vars>>

\* smiles_columns = processor.find_smiles_columns()
LookupColumns ==
    /\ pc = "sheet_looked_up"
    /\ LET r == find_smiles_columns(sheets_data)
       IN  /\ smiles_columns' = IF r.exc = "none" THEN r.ret ELSE smiles_columns
           /\ exc' = r.exc
           /\ log' = Append(log, r.exc)
    /\ pc' = "columns_looked_up"
    /\ UNCHANGED <<file, faulty, sheets_data, updated_sheets,
                   sheets_with_formulas, final_sheets, sheet_idx, status,
                   outcome, output, mapping, unit_vars, side_vars>>

\* ret = processor.get_sheet_info()
LookupInfo ==
    /\ pc = "columns_looked_up"
    /\ LET r == get_sheet_info(sheets_data)
       IN  /\ ret' = IF r.exc = "none" THEN r.ret ELSE ret
           /\ exc' = r.exc
           /\ log' = Append(log, r.exc)
    /\ pc' = "lookups_done"
    /\ UNCHANGED <<file, faulty, sheets_data, smiles_columns, updated_sheets,
                   sheets_with_formulas, final_sheets, sheet_idx, status,
                   outcome, output, mapping, reference_df, idx,
                   formula_to_metabolite, heap, target_df, before, parser,
                   smiles_column, result_df, result2_df, smiles, formula,
                   parser_calls, side_vars, merge_vars>>

NextLookups == LookupSheet \/ LookupColumns \/ LookupInfo

SpecLookups == InitLookups /\ [][NextLookups]_vars

\* C29: ExcelProcessor.find_smiles_columns agrees with find_smiles_column on
\* every sheet: for a loaded sheet for which find_smiles_column returns a
\* column name, or None, find_smiles_columns reports the same for that sheet,
\* and get_sheet_info reports the same as its smiles_column.
C29_LookupsAgree ==
    pc = "lookups_done" /\ log[1] = "none" =>
        /\ log[2] = "none"
        /\ smiles_columns[sheet_idx].name = sheets_data[sheet_idx].name
        /\ smiles_columns[sheet_idx].col = smiles_column
        /\ log[3] = "none"
        /\ ret[sheet_idx].smiles_column = smiles_column
        /\ ret[sheet_idx].has_smiles = (smiles_column # None)

-----------------------------------------------------------------------------
(* merge_metabolite_data (src/metabolite_mapper.py): the map of a reference
   table applied to a list of target tables.  The targets are the objects of
   the heap; result_dfs holds the references appended so far. *)

MaxTargets == 2

\* the tables handed in as targets
MergeTargets == {DataFormula, Data, DataNoRows}

\* the names handed in with them
MergeNames == {"A", "B"}

InitMerge ==
    /\ pc = "merge_start"
    /\ reference_df \in {RefGood, RefNoName}
    /\ \E n \in 0..MaxTargets : heap \in [1..n -> MergeTargets]
    /\ target_dfs = [i \in DOMAIN heap |-> i]
    /\ \E k \in 0..MaxTargets : sheet_names \in [1..k -> MergeNames]
    /\ result_dfs = <<>>
    /\ mapping = EmptyMap
    /\ exc = "none"
    /\ idx = 0
    /\ formula_to_metabolite = EmptyMap
    /\ target_df = 0
    /\ before = NoTable
    /\ parser = NoParser
    /\ smiles_column = None
    /\ result_df = 0
    /\ result2_df = 0
    /\ smiles = NaN
    /\ formula = <<>>
    /\ parser_calls = <<>>
    /\ ret = <<>>
    /\ MainIdle

\* mapping = create_formula_metabolite_mapping(reference_df, ...); its
\* ValueError leaves merge_metabolite_data
MergeCreateMapping ==
    /\ pc = "merge_start"
    /\ LET r == create_formula_metabolite_mapping(
                    reference_df, REFERENCE_FORMULA_COL, REFERENCE_METABOLITE_COL)
       IN  /\ mapping' = r.ret
           /\ exc' = r.exc
           /\ pc' = IF r.exc = "none" THEN "merge_loop" ELSE "merge_raised"
    /\ UNCHANGED <<reference_df, idx, formula_to_metabolite, heap, target_df,
                   before, parser, smiles_column, result_df, result2_df, smiles,
                   formula, parser_calls, ret, main_vars, merge_vars>>

\* one turn of the loop over zip(target_dfs, sheet_names): the pair at the
\* position reached, while both lists have one
MergeTarget ==
    /\ pc = "merge_loop"
    /\ LET i == Len(result_dfs) + 1
       IN  /\ i <= Len(target_dfs)
           /\ i <= Len(sheet_names)
           /\ IF HasColumn(heap[target_dfs[i]], FORMULA)
              THEN LET r == apply_metabolite_mapping(heap, target_dfs[i], mapping,
                                                     FORMULA, METABOLITE_NAME)
                       stats == get_mapping_statistics(r.heap[r.ret], METABOLITE_NAME)
                   IN  /\ heap' = r.heap
                       /\ exc' = stats.exc
                       /\ result_dfs' = Append(result_dfs, r.ret)
              ELSE /\ result_dfs' = Append(result_dfs, target_dfs[i])
                   /\ UNCHANGED <<heap, exc>>
    /\ UNCHANGED <<pc, reference_df, idx, formula_to_metabolite, target_df,
                   before, mapping, parser, smiles_column, result_df, result2_df,
                   smiles, formula, parser_calls, ret, main_vars, target_dfs,
                   sheet_names>>

\* zip is exhausted when either list is: return result_dfs
MergeReturn ==
    /\ pc = "merge_loop"
    /\ \/ Len(result_dfs) >= Len(target_dfs)
       \/ Len(result_dfs) >= Len(sheet_names)
    /\ pc' = "merge_returned"
    /\ UNCHANGED <<reference_df, idx, formula_to_metabolite, heap, target_df,
                   before, mapping, parser, smiles_column, result_df, result2_df,
                   exc, smiles, formula, parser_calls, ret, main_vars, merge_vars>>

NextMerge == MergeCreateMapping \/ MergeTarget \/ MergeReturn

SpecMerge == InitMerge /\ [][NextMerge]_vars

\* C28: merge_metabolite_data returns exactly one table per target table it
\* was given, in the same order, whatever the list of sheet names: a target
\* with the Formula column comes back as a table carrying the name column
\* looked up in the map of the reference table, and a target without it comes
\* back as the very table handed in.
C28_MergeReturnsOnePerTarget ==
    pc = "merge_returned" =>
        /\ Len(result_dfs) = Len(target_dfs)
        /\ \A i \in DOMAIN target_dfs :
              IF HasColumn(heap[target_dfs[i]], FORMULA)
              THEN MappedFrom(heap[target_dfs[i]], heap[result_dfs[i]], mapping)
              ELSE result_dfs[i] = target_dfs[i]

====
